---- MODULE Spec2Model ----
(***************************************************************************)
(* Model of the drilling SSH tunnel manager: the tunnel engine of          *)
(* internal/service/tunnel_service.go over the repository of               *)
(* internal/repository (tunnels, connection_logs).                          *)
(*                                                                         *)
(* Callers (HTTP handlers) are processes with a program counter; every     *)
(* step of a service method that reads or writes shared state (the         *)
(* registry activeTunnels under its mutex, one repository statement, one   *)
(* socket or SSH call) is one action.  Accept loops and connection         *)
(* handlers are goroutines of their own.                                   *)
(***************************************************************************)
EXTENDS Integers, Sequences, FiniteSets, TLC

\* ------------------------------------------------------------- bounds
MaxTunnels == 2      \* tunnel rows ever inserted
MaxLive == 1         \* tunnel rows ever inserted where tunnels are also started
MaxPort == 2         \* distinct {local-address, local-port} pairs
MaxRPort == 1        \* distinct {remote-address, remote-port} pairs
MaxHost == 2         \* host ids a tunnel may name
MaxRuns == 2         \* SSH clients ever dialled by StartTunnel
MaxConns == 1        \* connections being handled at one time
MaxLog == 3          \* rows of connection_logs
MaxBatch == 3        \* entries of one createMultipleLocalForwards
MaxRelay == 2        \* chunks a SOCKS5 relay forwards in each direction
MaxPlain == 3        \* bytes of a secret
BlockSize == 2       \* bytes of a cipher block and of the IV (aes.BlockSize, scaled)
KeyLen == 2          \* bytes of the cipher key (32, scaled)
MaxClock == 2        \* readings of the clock
MaxName == 5         \* characters of a name given to sanitizeName

Procs == {1, 2}
TunnelIds == 1..MaxTunnels
RunIds == 1..MaxRuns
ConnIds == 1..MaxConns

\* ------------------------------------------------------------- constants of the program
TunnelStatusActive == "active"
TunnelStatusInactive == "inactive"
TunnelStatusError == "error"
TunnelTypeLocalForward == "local_forward"
TunnelTypeRemoteForward == "remote_forward"
TunnelTypeDynamic == "dynamic"
LogEventConnect == "connect"
LogEventDisconnect == "disconnect"
LogEventError == "error"
LogEventStart == "start"
LogEventStop == "stop"

Statuses == {TunnelStatusActive, TunnelStatusInactive, TunnelStatusError}
Types == {TunnelTypeLocalForward, TunnelTypeRemoteForward, TunnelTypeDynamic}

VARIABLES
  tunnels,        \* table tunnels: id -> row, NoTunnel when absent or soft-deleted
  nextId,         \* next primary key of table tunnels
  logs,           \* table connection_logs, in insertion order: <<tunnel id, event>>
  hosts,          \* ids of the rows of table hosts that GetHost can return
  activeTunnels,  \* the engine registry: id -> handle, NoHandle when nil
  runs,           \* per StartTunnel that dialled: its SSH client, listener, context, accept loop
  conns,          \* accepted connections and the position of their handler
  proc,           \* callers: the service call in progress and its position
  booted,         \* main has run the start-up reset and serves requests
  autoStart,      \* ids of the rows of table tunnels whose auto_start is true
  logCap,         \* rows table connection_logs takes in this run (a bound of the model)
  busy,           \* local ports held by other programs of the machine
  socks,          \* one connection served by SOCKS5Server.HandleConnection, and its client
  hostRows,       \* table hosts: id -> row, NoHost when absent
  encryptKey,     \* hostService.encryptKey
  clock,          \* time.Now()
  fwd             \* one connection served by handleLocalForward / handleRemoteForward

\* the engine and its tables
engine == <<tunnels, nextId, logs, hosts, activeTunnels, runs, conns, proc>>
\* what only the specifications of the batch operations and of start-up change
ext == <<booted, autoStart, logCap, busy, socks, hostRows, encryptKey, clock, fwd>>
\* what a SOCKS5 connection leaves alone
socksFrame == <<engine, booted, autoStart, logCap, busy, hostRows, encryptKey, clock, fwd>>

vars == <<tunnels, nextId, logs, hosts, activeTunnels, runs, conns, proc,
          booted, autoStart, logCap, busy, socks, hostRows, encryptKey, clock, fwd>>

\* the port ranges CreateDynamicSOCKS5Tunnel scans
SocksPortFirst == 1080
SocksPortLast == 1090
AltPortFirst == 8080
AltPortLast == 8090

\* the SOCKS5 protocol constants of package socks5
Socks5Version == 5
AuthMethodNoAuth == 0
AuthMethodPassword == 2
AuthMethodNoAcceptable == 255
CmdConnect == 1
CmdBind == 2
CmdUDPAssociate == 3
AtypIPV4 == 1
AtypDomain == 3
AtypIPV6 == 4
RepSuccess == 0
RepHostUnreachable == 4
RepCommandNotSupported == 7
RepAddressNotSupported == 8
\* make([]byte, 256): what one conn.Read of handleAuth or handleRequest can return
BufLen == 256

HostIds == 1..MaxHost
\* bytes are two bits wide here
Byte == 0..3

\* ------------------------------------------------------------- values
\* no row of table hosts
NoHost == [Name |-> "", AuthType |-> "none", Password |-> <<>>, PrivateKey |-> <<>>,
           Passphrase |-> <<>>, Status |-> "none", LastCheck |-> 0, plain |-> <<>>]
\* the place of a row that was deleted: its id is spent
DeletedHost == [NoHost EXCEPT !.Status = "deleted"]

\* the host the tunnels of the engine use
SeedHost == [NoHost EXCEPT !.Name = "a", !.AuthType = "password", !.Password = <<2>>,
                           !.Status = "inactive"]

\* NewHostService lines 42-52: the key string cut or zero-padded to the key length
NewKey(str) == [i \in 1..KeyLen |-> IF i <= Len(str) THEN str[i] ELSE 0]
NoTunnel == [host |-> 0, type |-> "none", port |-> 0, rport |-> 0, status |-> "none"]
NoHandle == [run |-> 0, listener |-> 0]
NoRun == [tid |-> 0, type |-> "none", port |-> 0, ssh |-> "none", lst |-> "none",
          cancelled |-> FALSE, loop |-> "none"]
NoConn == [run |-> 0, tid |-> 0, pc |-> "none"]
\* no connection yet: nothing sent, nothing read, nothing written, nothing dialled
\* the realtime statistics of a tunnel nothing was logged for, with the number of
\* LogTraffic calls made
NoStats == [CurrentBytesIn |-> 0, CurrentBytesOut |-> 0, calls |-> 0]
NoDest == [host |-> <<>>, port |-> 0]
NoSocks == [pc |-> "auth", cl |-> "start", inbox |-> <<>>, hello |-> <<>>, want |-> <<>>,
            req |-> <<>>, target |-> NoDest, out |-> <<>>, dials |-> <<>>, up |-> 0,
            err |-> "none", copyIn |-> "none", copyOut |-> "none", bytesIn |-> 0,
            bytesOut |-> 0, stats |-> NoStats]
\* a connection a forward has just accepted: the peer not dialled, no copy started,
\* nothing in channel `done`, the context of the tunnel live, no log event
NoFwd == [kind |-> "local_forward", pc |-> "dial", accepted |-> "open", peer |-> "none",
          up |-> "none", down |-> "none", done |-> 0, ctx |-> "live", events |-> <<>>,
          sent |-> 0, received |-> 0]
IdleProc == [pc |-> "idle", op |-> "none", id |-> 0, arg |-> NoTunnel, snap |-> NoTunnel,
             h |-> NoHandle, run |-> 0, ret |-> "none", todo |-> <<>>, att |-> <<>>,
             first |-> 0, body |-> <<>>]

\* what a caller may send as a tunnel: every field may be missing (0) or wrong
TunnelInputs ==
  {t \in [host : 0..MaxHost, type : Types \cup {"bogus"}, port : 0..MaxPort,
          rport : 0..MaxRPort, status : Statuses] :
     t.type = TunnelTypeDynamic => t.rport = 0}

Exists(id) == tunnels[id] # NoTunnel
\* the ids that create has handed out so far (deleted ones included)
KnownIds == 1..(nextId - 1)
IsLocalBind(type) == type \in {TunnelTypeLocalForward, TunnelTypeDynamic}

\* ------------------------------------------------------------- repository
\* tunnelRepository.UpdateStatus: UPDATE tunnels SET status WHERE id (no row: no change)
UpdateStatus(tbl, id, status) ==
  IF tbl[id] # NoTunnel THEN [tbl EXCEPT ![id].status = status] ELSE tbl

\* tunnelRepository.Update: db.Save writes every column of the row, status included
RepoUpdate(tbl, id, t) ==
  IF tbl[id] # NoTunnel THEN [tbl EXCEPT ![id] = t] ELSE tbl

\* tunnelRepository.AddConnectionLog through tunnelService.addConnectionLog
AddConnectionLog(lg, id, event) == Append(lg, <<id, event>>)

\* DELETE FROM connection_logs WHERE tunnel_id = id
RECURSIVE DeleteLogs(_, _)
DeleteLogs(lg, id) ==
  IF lg = <<>> THEN <<>>
  ELSE IF Head(lg)[1] = id THEN DeleteLogs(Tail(lg), id)
       ELSE <<Head(lg)>> \o DeleteLogs(Tail(lg), id)

LogRoom == Len(logs) < logCap

\* ------------------------------------------------------------- sockets
\* a local {address, port} pair is held by every open listener of a run bound to it
PortHeld(port) ==
  \E r \in RunIds : runs[r].lst = "open" /\ IsLocalBind(runs[r].type) /\ runs[r].port = port

\* net.Listen on a local port succeeds: no listener of this process and no other
\* program holds it
Bindable(port) == ~PortHeld(port) /\ port \notin busy

\* the remote listener of a tunnel's earlier run is still held at the SSH server
RemoteHeld(id) ==
  \E r \in RunIds : runs[r].lst = "open" /\ runs[r].type = TunnelTypeRemoteForward
                    /\ runs[r].tid = id /\ runs[r].ssh = "open"

FreeRuns == {r \in RunIds : runs[r] = NoRun}

\* a run whose SSH client is closed, whose listener is released and whose accept loop
\* has returned (or was never spawned) holds nothing any more: what it was is forgotten
DeadRun == [tid |-> 0, type |-> "none", port |-> 0, ssh |-> "closed", lst |-> "closed",
            cancelled |-> TRUE, loop |-> "done"]
IsDead(run) ==
  /\ run.ssh = "closed"
  /\ run.lst # "open"
  /\ run.loop \in {"none", "done"}
Forget(rn) == [r \in RunIds |-> IF IsDead(rn[r]) THEN DeadRun ELSE rn[r]]

\* ------------------------------------------------------------- validation
\* validateTunnelConfig (name and host id are one input here: host = 0 is either missing)
validateTunnelConfig(t) ==
  /\ t.host # 0
  /\ t.port # 0
  /\ t.type \in Types
  /\ t.type \in {TunnelTypeLocalForward, TunnelTypeRemoteForward} => t.rport # 0

\* checkPortAvailability, second half: the scan of GetAll for a clash with another row
PortConflict(id, t) ==
  \E e \in TunnelIds :
    /\ Exists(e)
    /\ e # id
    /\ \/ tunnels[e].port = t.port
       \/ /\ t.type = TunnelTypeRemoteForward
          /\ tunnels[e].type = TunnelTypeRemoteForward
          /\ tunnels[e].host = t.host
          /\ tunnels[e].rport = t.rport

\* ------------------------------------------------------------- initial state
Init ==
  /\ tunnels = [i \in TunnelIds |-> NoTunnel]
  /\ nextId = 1
  /\ logs = <<>>
  /\ hosts = {1}
  /\ activeTunnels = [i \in TunnelIds |-> NoHandle]
  /\ runs = [r \in RunIds |-> NoRun]
  /\ conns = [c \in ConnIds |-> NoConn]
  /\ proc = [p \in Procs |-> IdleProc]
  /\ booted = TRUE
  /\ autoStart = {}
  /\ logCap = MaxLog
  /\ busy = {}
  /\ socks = NoSocks
  /\ hostRows = [id \in HostIds |-> IF id \in {1} THEN SeedHost ELSE NoHost]
  /\ encryptKey = NewKey(<<>>)
  /\ clock = 1
  /\ fwd = NoFwd

\* ------------------------------------------------------------- returns
\* the call has returned `ret`: only what the caller sees is kept
Done(pr, ret) ==
  [IdleProc EXCEPT !.pc = "done", !.op = pr.op, !.id = pr.id, !.run = pr.run, !.ret = ret]

\* a batch operation has returned `ret`: the caller sees it, the attempts made and
\* what the loop had left
BatchDone(pr, ret) ==
  [IdleProc EXCEPT !.pc = "done", !.op = pr.op, !.ret = ret, !.att = pr.att,
                   !.todo = pr.todo, !.first = pr.first]

\* the loop of a batch operation goes on to its next element, this one having
\* returned `ret` (lines 621-625, 639-643: the error is logged, the loop continues)
BatchNext(pr, ret) ==
  [IdleProc EXCEPT !.pc = "batch_next", !.op = pr.op, !.todo = pr.todo,
                   !.att = Append(pr.att, <<pr.id, ret>>), !.first = pr.first]

\* a StopAllTunnels that returns the first error of a StopTunnel
AfterStop_Abort(pr, ret) ==
  CASE pr.op = "update" ->
         IF ret = "ok" THEN [pr EXCEPT !.pc = "upd_save_restart"]
         ELSE Done(pr, "stop_failed")
    [] pr.op = "delete" -> [pr EXCEPT !.pc = "del_logs"]
    [] pr.op = "stopall" -> IF ret = "ok" THEN BatchNext(pr, ret) ELSE BatchDone(pr, ret)
    [] OTHER -> Done(pr, ret)

\* where a caller goes when StopTunnel returns `ret`
AfterStop(pr, ret) ==
  CASE pr.op = "update" ->
         IF ret = "ok" THEN [pr EXCEPT !.pc = "upd_save_restart"]
         ELSE Done(pr, "stop_failed")
    [] pr.op = "delete" -> [pr EXCEPT !.pc = "del_logs"]
    [] pr.op = "stopall" -> BatchNext(pr, ret)
    [] OTHER -> Done(pr, ret)

\* a StartAutoTunnels that returns the first error of a StartTunnel
AfterStart_Abort(pr, ret) ==
  IF pr.op = "auto"
  THEN IF ret = "ok" THEN BatchNext(pr, ret) ELSE BatchDone(pr, ret)
  ELSE Done(pr, ret)

\* where a caller goes when StartTunnel returns `ret`
AfterStart(pr, ret) == IF pr.op = "auto" THEN BatchNext(pr, ret) ELSE Done(pr, ret)

SetProc(p, pr) == proc' = [proc EXCEPT ![p] = pr]

\* ------------------------------------------------------------- StopTunnel
\* a StopTunnel that answers success when it finds no handle
StopTake_Lenient(p, pr) ==
  LET h == activeTunnels[pr.id] IN
  IF h # NoHandle
  THEN /\ activeTunnels' = [activeTunnels EXCEPT ![pr.id] = NoHandle]
       /\ SetProc(p, [pr EXCEPT !.pc = "stop_listener", !.h = h, !.run = h.run])
  ELSE /\ UNCHANGED activeTunnels
       /\ SetProc(p, AfterStop(pr, "ok"))

\* lines 535-544: under the mutex, take the handle out of the registry
StopTake(p, pr) ==
  LET h == activeTunnels[pr.id] IN
  IF h # NoHandle
  THEN /\ activeTunnels' = [activeTunnels EXCEPT ![pr.id] = NoHandle]
       /\ SetProc(p, [pr EXCEPT !.pc = "stop_listener", !.h = h, !.run = h.run])
  ELSE /\ UNCHANGED activeTunnels
       /\ SetProc(p, AfterStop(pr, "not_running"))

CallStop(p, id) ==
  /\ proc[p].pc = "idle"
  /\ StopTake(p, [IdleProc EXCEPT !.op = "stop", !.id = id])
  /\ UNCHANGED <<tunnels, nextId, logs, hosts, runs, conns, ext>>

\* lines 549-559: close the listener the handle holds, if it holds one
CloseHandleListener(rn, h) ==
  IF h.listener # 0 THEN [rn EXCEPT ![h.listener].lst = "closed"] ELSE rn

StopListener(p) ==
  /\ proc[p].pc = "stop_listener"
  /\ runs' = CloseHandleListener(runs, proc[p].h)
  /\ SetProc(p, [proc[p] EXCEPT !.pc = "stop_cancel"])
  /\ UNCHANGED <<tunnels, nextId, logs, hosts, activeTunnels, conns, ext>>

\* line 562: activeTunnel.cancel()
StopCancel(p) ==
  /\ proc[p].pc = "stop_cancel"
  /\ runs' = [runs EXCEPT ![proc[p].h.run].cancelled = TRUE]
  /\ SetProc(p, [proc[p] EXCEPT !.pc = "stop_ssh"])
  /\ UNCHANGED <<tunnels, nextId, logs, hosts, activeTunnels, conns, ext>>

\* lines 565-572: activeTunnel.sshClient.Close()
StopSSH(p) ==
  /\ proc[p].pc = "stop_ssh"
  /\ runs' = Forget([runs EXCEPT ![proc[p].h.run].ssh = "closed"])
  /\ SetProc(p, [proc[p] EXCEPT !.pc = "stop_sleep", !.h = NoHandle])
  /\ UNCHANGED <<tunnels, nextId, logs, hosts, activeTunnels, conns, ext>>

\* line 575: time.Sleep(200 * time.Millisecond)
StopSleep(p) ==
  /\ proc[p].pc = "stop_sleep"
  /\ SetProc(p, [proc[p] EXCEPT !.pc = "stop_status"])
  /\ UNCHANGED <<tunnels, nextId, logs, hosts, activeTunnels, runs, conns, ext>>

\* line 578: UpdateStatus(id, inactive)
StopStatus(p) ==
  /\ proc[p].pc = "stop_status"
  /\ tunnels' = UpdateStatus(tunnels, proc[p].id, TunnelStatusInactive)
  /\ SetProc(p, [proc[p] EXCEPT !.pc = "stop_log"])
  /\ UNCHANGED <<nextId, logs, hosts, activeTunnels, runs, conns, ext>>

\* lines 579-582: the `stop` log event, return nil
StopLog(p) ==
  /\ proc[p].pc = "stop_log"
  /\ LogRoom
  /\ logs' = AddConnectionLog(logs, proc[p].id, LogEventStop)
  /\ SetProc(p, AfterStop(proc[p], "ok"))
  /\ UNCHANGED <<tunnels, nextId, hosts, activeTunnels, runs, conns, ext>>

\* ------------------------------------------------------------- StartTunnel
\* lines 188-199: GetByID, then the already-running check under the read lock
StartEntry(p, pr) ==
  IF ~Exists(pr.id) THEN SetProc(p, AfterStart(pr, "not_found"))
  ELSE IF activeTunnels[pr.id] # NoHandle THEN SetProc(p, AfterStart(pr, "already_running"))
  ELSE SetProc(p, [pr EXCEPT !.pc = "start_conn", !.snap = tunnels[pr.id]])

CallStart(p, id) ==
  /\ proc[p].pc = "idle"
  /\ StartEntry(p, [IdleProc EXCEPT !.op = "start", !.id = id])
  /\ UNCHANGED <<tunnels, nextId, logs, hosts, activeTunnels, runs, conns, ext>>

\* lines 202-205: hostService.GetHost fails: return, nothing else
StartHostFail(p) ==
  /\ proc[p].pc = "start_conn"
  /\ proc[p].snap.host \notin hosts
  /\ SetProc(p, AfterStart(proc[p], "host"))
  /\ UNCHANGED <<tunnels, nextId, logs, hosts, activeTunnels, runs, conns, ext>>

\* lines 208-213: createSSHConnection fails (decrypt, config or dial)
StartDialFail(p) ==
  /\ proc[p].pc = "start_conn"
  /\ proc[p].snap.host \in hosts
  /\ SetProc(p, [proc[p] EXCEPT !.pc = "start_fail_log", !.ret = "ssh", !.snap = NoTunnel])
  /\ UNCHANGED <<tunnels, nextId, logs, hosts, activeTunnels, runs, conns, ext>>

\* the SSH client and context of one StartTunnel (lines 208, 215)
NewRun(pr) ==
  [tid |-> pr.id, type |-> pr.snap.type, port |-> pr.snap.port, ssh |-> "open",
   lst |-> "none", cancelled |-> FALSE, loop |-> "none"]

StartDialOk(p) ==
  /\ proc[p].pc = "start_conn"
  /\ proc[p].snap.host \in hosts
  /\ FreeRuns # {}
  /\ LET r == CHOOSE x \in FreeRuns : \A y \in FreeRuns : x <= y IN
       /\ runs' = [runs EXCEPT ![r] = NewRun(proc[p])]
       /\ SetProc(p, [proc[p] EXCEPT !.pc = "start_listen", !.run = r])
  /\ UNCHANGED <<tunnels, nextId, logs, hosts, activeTunnels, conns, ext>>

\* whether the listen of startLocalForward / startRemoteForward / startDynamicForward
\* can succeed: the pair is not held by a listener of this process
CanListen(pr) ==
  /\ pr.snap.type \in Types
  /\ IsLocalBind(pr.snap.type) => ~PortHeld(pr.snap.port)
  /\ pr.snap.type = TunnelTypeRemoteForward => ~RemoteHeld(pr.id)

\* lines 268-273, 370-374, 455-459: the listener is stored in the handle only if a
\* handle for the id is registered at this moment
StoreListener(reg, id, r) ==
  IF reg[id] # NoHandle THEN [reg EXCEPT ![id].listener = r] ELSE reg

\* lines 218-224 with 260-319, 362-405, 447-504: listen, store, spawn the accept loop
StartListenOk(p) ==
  /\ proc[p].pc = "start_listen"
  /\ CanListen(proc[p])
  /\ runs' = [runs EXCEPT ![proc[p].run].lst = "open", ![proc[p].run].loop = "select"]
  /\ activeTunnels' = StoreListener(activeTunnels, proc[p].id, proc[p].run)
  /\ SetProc(p, [proc[p] EXCEPT !.pc = "start_register", !.snap = NoTunnel])
  /\ UNCHANGED <<tunnels, nextId, logs, hosts, conns, ext>>

\* lines 225-233: the listen fails (pair held, or refused by the system or the SSH
\* server), or the kind is unsupported: cancel() and sshClient.Close()
StartListenFail(p) ==
  /\ proc[p].pc = "start_listen"
  /\ runs' = Forget([runs EXCEPT ![proc[p].run].cancelled = TRUE,
                                 ![proc[p].run].ssh = "closed"])
  /\ IF proc[p].snap.type \notin Types
     THEN SetProc(p, AfterStart(proc[p], "unsupported"))
     ELSE SetProc(p, [proc[p] EXCEPT !.pc = "start_fail_log", !.ret = "listen",
                                     !.snap = NoTunnel])
  /\ UNCHANGED <<tunnels, nextId, logs, hosts, activeTunnels, conns, ext>>

\* lines 210 and 234: the `error` log event
StartFailLog(p) ==
  /\ proc[p].pc = "start_fail_log"
  /\ LogRoom
  /\ logs' = AddConnectionLog(logs, proc[p].id, LogEventError)
  /\ SetProc(p, [proc[p] EXCEPT !.pc = "start_fail_status"])
  /\ UNCHANGED <<tunnels, nextId, hosts, activeTunnels, runs, conns, ext>>

\* lines 211-212 and 235-236: UpdateStatus(id, error), return the error
StartFailStatus(p) ==
  /\ proc[p].pc = "start_fail_status"
  /\ tunnels' = UpdateStatus(tunnels, proc[p].id, TunnelStatusError)
  /\ SetProc(p, AfterStart(proc[p], proc[p].ret))
  /\ UNCHANGED <<nextId, logs, hosts, activeTunnels, runs, conns, ext>>

\* a StartTunnel that registers nothing
RegisterHandle_Skip(reg, id, r) == reg

\* lines 240-250: the handle, with no listener, replaces whatever the registry holds
RegisterHandle(reg, id, r) == [reg EXCEPT ![id] = [run |-> r, listener |-> 0]]

StartRegister(p) ==
  /\ proc[p].pc = "start_register"
  /\ activeTunnels' = RegisterHandle(activeTunnels, proc[p].id, proc[p].run)
  /\ SetProc(p, [proc[p] EXCEPT !.pc = "start_status"])
  /\ UNCHANGED <<tunnels, nextId, logs, hosts, runs, conns, ext>>

\* line 253: UpdateStatus(id, active)
StartStatus(p) ==
  /\ proc[p].pc = "start_status"
  /\ tunnels' = UpdateStatus(tunnels, proc[p].id, TunnelStatusActive)
  /\ SetProc(p, [proc[p] EXCEPT !.pc = "start_log"])
  /\ UNCHANGED <<nextId, logs, hosts, activeTunnels, runs, conns, ext>>

\* lines 254-256: the `start` log event, return nil
StartLog(p) ==
  /\ proc[p].pc = "start_log"
  /\ LogRoom
  /\ logs' = AddConnectionLog(logs, proc[p].id, LogEventStart)
  /\ SetProc(p, AfterStart(proc[p], "ok"))
  /\ UNCHANGED <<tunnels, nextId, hosts, activeTunnels, runs, conns, ext>>

\* ------------------------------------------------------------- CreateTunnel
\* a createMultipleLocalForwards that returns at the first entry that fails
AfterCreate_Abort(pr, ret) ==
  IF pr.op = "multi"
  THEN IF ret = "ok" THEN BatchNext(pr, ret) ELSE BatchDone(pr, "some_failed")
  ELSE Done(pr, ret)

\* where a caller goes when CreateTunnel returns `ret` (lines 106-111 in the batch)
AfterCreate(pr, ret) == IF pr.op = "multi" THEN BatchNext(pr, ret) ELSE Done(pr, ret)

\* lines 72-81: validateTunnelConfig, then checkPortAvailability: the transient bind
\* (which the system may refuse for reasons of its own) and the scan of the rows;
\* `cap` bounds the rows ever inserted
CreateEntry(p, pr, cap) ==
  \/ /\ ~validateTunnelConfig(pr.arg)
     /\ SetProc(p, AfterCreate(pr, "invalid"))
  \/ /\ validateTunnelConfig(pr.arg)
     /\ SetProc(p, AfterCreate(pr, "port_unavailable"))
  \/ /\ validateTunnelConfig(pr.arg)
     /\ Bindable(pr.arg.port)
     /\ PortConflict(0, pr.arg)
     /\ SetProc(p, AfterCreate(pr, "conflict"))
  \/ /\ validateTunnelConfig(pr.arg)
     /\ Bindable(pr.arg.port)
     /\ ~PortConflict(0, pr.arg)
     /\ nextId + Cardinality({q \in Procs \ {p} : proc[q].pc = "create_insert"}) <= cap
     /\ SetProc(p, [pr EXCEPT !.pc = "create_insert"])

CallCreate(p, t, cap) ==
  /\ proc[p].pc = "idle"
  /\ nextId + Cardinality({q \in Procs : proc[q].pc = "create_insert"}) <= cap
  /\ CreateEntry(p, [IdleProc EXCEPT !.op = "create", !.arg = t], cap)
  /\ UNCHANGED <<tunnels, nextId, logs, hosts, activeTunnels, runs, conns, ext>>

\* a CreateTunnel that persists the status it was sent
CreateRow_Keep(t) == t

\* lines 84-86: status = inactive, tunnelRepo.Create
CreateRow(t) == [t EXCEPT !.status = TunnelStatusInactive]

CreateInsert(p) ==
  /\ proc[p].pc = "create_insert"
  /\ tunnels' = [tunnels EXCEPT ![nextId] = CreateRow(proc[p].arg)]
  /\ nextId' = nextId + 1
  /\ SetProc(p, AfterCreate([proc[p] EXCEPT !.id = nextId, !.arg = NoTunnel], "ok"))
  /\ UNCHANGED <<logs, hosts, activeTunnels, runs, conns, ext>>

\* ------------------------------------------------------------- CreateMultipleLocalForwards
\* what a caller may send as one local service: local port and remote port, either
\* of which may be missing
ServiceInputs == [port : 0..MaxPort, rport : 0..MaxRPort]

ServiceLists == UNION {[1..n -> ServiceInputs] : n \in 1..MaxBatch}

\* lines 95-105: the tunnel built for one entry
ServiceTunnel(hostID, e) ==
  [host |-> hostID, type |-> TunnelTypeRemoteForward, port |-> e.port, rport |-> e.rport,
   status |-> TunnelStatusInactive]

\* lines 90-93: the call, with the tunnels of its entries still to create
CallCreateMultiple(p, hostID, list) ==
  /\ proc[p].pc = "idle"
  /\ SetProc(p, [IdleProc EXCEPT !.pc = "batch_next", !.op = "multi", !.first = nextId,
                                 !.todo = [i \in 1..Len(list) |->
                                             ServiceTunnel(hostID, list[i])]])
  /\ UNCHANGED <<tunnels, nextId, logs, hosts, activeTunnels, runs, conns, ext>>

\* the batch had an entry that failed
SomeFailed(att) == \E i \in 1..Len(att) : att[i][2] # "ok"

\* lines 94-119: CreateTunnel of the next entry, or return what was created with the
\* aggregated error, if any
MultiNext(p) ==
  /\ proc[p].pc = "batch_next"
  /\ proc[p].op = "multi"
  /\ IF proc[p].todo = <<>>
     THEN SetProc(p, BatchDone(proc[p], IF SomeFailed(proc[p].att) THEN "some_failed"
                                        ELSE "ok"))
     ELSE CreateEntry(p, [proc[p] EXCEPT !.arg = Head(proc[p].todo),
                                         !.todo = Tail(proc[p].todo)], MaxTunnels)
  /\ UNCHANGED <<tunnels, nextId, logs, hosts, activeTunnels, runs, conns, ext>>

\* ------------------------------------------------------------- CreateDynamicSOCKS5Tunnel
\* lines 823-830: the first port from startPort to endPort on which net.Listen
\* succeeds, 0 (with the error of line 832) when there is none
RECURSIVE FindAvailablePort(_, _)
FindAvailablePort(startPort, endPort) ==
  IF startPort > endPort THEN 0
  ELSE IF Bindable(startPort) THEN startPort
  ELSE FindAvailablePort(startPort + 1, endPort)

\* lines 838-845: the common SOCKS range, then the larger one
DynamicPort ==
  LET localPort == FindAvailablePort(SocksPortFirst, SocksPortLast) IN
  IF localPort # 0 THEN localPort ELSE FindAvailablePort(AltPortFirst, AltPortLast)

\* lines 847-855: the tunnel built on the port found
DynamicTunnel(hostID, localPort) ==
  [host |-> hostID, type |-> TunnelTypeDynamic, port |-> localPort, rport |-> 0,
   status |-> TunnelStatusInactive]

\* lines 836-855: the scan; no port found returns the error of line 843
CallCreateDynamic(p, hostID) ==
  /\ proc[p].pc = "idle"
  /\ nextId <= MaxTunnels
  /\ IF DynamicPort = 0
     THEN SetProc(p, Done([IdleProc EXCEPT !.op = "dynamic"], "no_port"))
     ELSE SetProc(p, [IdleProc EXCEPT !.pc = "dynamic_create", !.op = "dynamic",
                                      !.arg = DynamicTunnel(hostID, DynamicPort)])
  /\ UNCHANGED <<tunnels, nextId, logs, hosts, activeTunnels, runs, conns, ext>>

\* lines 857-859: CreateTunnel on the tunnel built; its error is returned wrapped
DynamicCreate(p) ==
  /\ proc[p].pc = "dynamic_create"
  /\ CreateEntry(p, proc[p], MaxTunnels)
  /\ UNCHANGED <<tunnels, nextId, logs, hosts, activeTunnels, runs, conns, ext>>

\* the ports other programs hold when the call is made: the low end of each range up
\* to some port, and possibly its last port
BusyRange(first, last) ==
  {(first..k) \cup X : k \in (first - 1)..last, X \in SUBSET {last}}

BusyPorts ==
  {S \cup T : S \in BusyRange(SocksPortFirst, SocksPortLast),
              T \in BusyRange(AltPortFirst, AltPortLast)}

\* ------------------------------------------------------------- UpdateTunnel
\* lines 150-160: validateTunnelConfig, then isActive read under the read lock.
\* Nothing reads the caller's tunnel between its validation and tunnelRepo.Update, so
\* the caller's (valid) tunnel is drawn where it is written, in UpdateSave and
\* UpdateSaveRestart, instead of being carried from here.
CallUpdate(p, id, t) ==
  /\ proc[p].pc = "idle"
  /\ Exists(id)
  /\ LET pr == [IdleProc EXCEPT !.op = "update", !.id = id] IN
       IF ~validateTunnelConfig(t) THEN SetProc(p, Done(pr, "invalid"))
       ELSE IF activeTunnels[id] # NoHandle THEN SetProc(p, [pr EXCEPT !.pc = "upd_stop"])
       ELSE SetProc(p, [pr EXCEPT !.pc = "upd_save"])
  /\ UNCHANGED <<tunnels, nextId, logs, hosts, activeTunnels, runs, conns, ext>>

\* line 162: StopTunnel(tunnel.ID)
UpdateStop(p) ==
  /\ proc[p].pc = "upd_stop"
  /\ StopTake(p, proc[p])
  /\ UNCHANGED <<tunnels, nextId, logs, hosts, runs, conns, ext>>

\* line 175: the tunnel was not running: tunnelRepo.Update, return
UpdateSave(p, t) ==
  /\ proc[p].pc = "upd_save"
  /\ validateTunnelConfig(t)
  /\ tunnels' = RepoUpdate(tunnels, proc[p].id, t)
  /\ SetProc(p, Done(proc[p], "ok"))
  /\ UNCHANGED <<nextId, logs, hosts, activeTunnels, runs, conns, ext>>

\* lines 167-169: after the stop: tunnelRepo.Update
UpdateSaveRestart(p, t) ==
  /\ proc[p].pc = "upd_save_restart"
  /\ validateTunnelConfig(t)
  /\ tunnels' = RepoUpdate(tunnels, proc[p].id, t)
  /\ SetProc(p, [proc[p] EXCEPT !.pc = "upd_start"])
  /\ UNCHANGED <<nextId, logs, hosts, activeTunnels, runs, conns, ext>>

\* line 172: return s.StartTunnel(tunnel.ID)
UpdateStart(p) ==
  /\ proc[p].pc = "upd_start"
  /\ StartEntry(p, proc[p])
  /\ UNCHANGED <<tunnels, nextId, logs, hosts, activeTunnels, runs, conns, ext>>

\* ------------------------------------------------------------- DeleteTunnel
\* line 181: s.StopTunnel(id), its error dropped
CallDelete(p, id) ==
  /\ proc[p].pc = "idle"
  /\ StopTake(p, [IdleProc EXCEPT !.op = "delete", !.id = id])
  /\ UNCHANGED <<tunnels, nextId, logs, hosts, runs, conns, ext>>

\* tunnelRepository.Delete, first statement: the tunnel's connection logs
DeleteTunnelLogs(p) ==
  /\ proc[p].pc = "del_logs"
  /\ logs' = DeleteLogs(logs, proc[p].id)
  /\ SetProc(p, [proc[p] EXCEPT !.pc = "del_row"])
  /\ UNCHANGED <<tunnels, nextId, hosts, activeTunnels, runs, conns, ext>>

\* tunnelRepository.Delete, second statement: the row (soft delete: the id is not reused)
DeleteRow(tbl, id) == [tbl EXCEPT ![id] = NoTunnel]

DeleteTunnelRow(p) ==
  /\ proc[p].pc = "del_row"
  /\ tunnels' = DeleteRow(tunnels, proc[p].id)
  /\ SetProc(p, Done(proc[p], "ok"))
  /\ UNCHANGED <<nextId, logs, hosts, activeTunnels, runs, conns, ext>>

\* ------------------------------------------------------------- GetTunnelStatus
\* what GetTunnelStatus(id) returns when it runs with nothing in between
GetTunnelStatus(id) ==
  IF activeTunnels[id] # NoHandle THEN TunnelStatusActive
  ELSE IF Exists(id) THEN tunnels[id].status ELSE "not_found"

\* lines 598-604: the registry read
CallStatus(p, id) ==
  /\ proc[p].pc = "idle"
  /\ LET pr == [IdleProc EXCEPT !.op = "status", !.id = id] IN
       IF activeTunnels[id] # NoHandle THEN SetProc(p, Done(pr, TunnelStatusActive))
       ELSE SetProc(p, [pr EXCEPT !.pc = "status_db"])
  /\ UNCHANGED <<tunnels, nextId, logs, hosts, activeTunnels, runs, conns, ext>>

\* lines 606-611: the row's status
StatusRead(p) ==
  /\ proc[p].pc = "status_db"
  /\ SetProc(p, Done(proc[p], IF Exists(proc[p].id) THEN tunnels[proc[p].id].status
                              ELSE "not_found"))
  /\ UNCHANGED <<tunnels, nextId, logs, hosts, activeTunnels, runs, conns, ext>>

\* the HTTP handler has answered; the caller is free for its next request
Return(p) ==
  /\ proc[p].pc = "done"
  /\ SetProc(p, IdleProc)
  /\ UNCHANGED <<tunnels, nextId, logs, hosts, activeTunnels, runs, conns, ext>>

\* ------------------------------------------------------------- start-up
\* a reset that sets every row to inactive
ResetActive_All(tbl) ==
  [i \in TunnelIds |->
     IF tbl[i] # NoTunnel THEN [tbl[i] EXCEPT !.status = TunnelStatusInactive] ELSE tbl[i]]

\* main.go lines 61-67: UPDATE tunnels SET status = inactive WHERE status = active
ResetActive(tbl) ==
  [i \in TunnelIds |->
     IF tbl[i].status = TunnelStatusActive
     THEN [tbl[i] EXCEPT !.status = TunnelStatusInactive] ELSE tbl[i]]

StartupReset ==
  /\ ~booted
  /\ tunnels' = ResetActive(tunnels)
  /\ booted' = TRUE
  /\ proc' = [p \in Procs |-> IdleProc]
  /\ UNCHANGED <<nextId, logs, hosts, activeTunnels, runs, conns, autoStart, logCap, busy,
               socks, hostRows, encryptKey, clock, fwd>>

\* ------------------------------------------------------------- batch operations
\* the ids of a set in increasing order (the order of the primary key)
RECURSIVE Ascending(_)
Ascending(S) ==
  IF S = {} THEN <<>>
  ELSE LET m == CHOOSE x \in S : \A y \in S : x <= y IN <<m>> \o Ascending(S \ {m})

\* every order a range over a Go map may take
Orders(S) ==
  {q \in [1..Cardinality(S) -> S] : \A i, j \in 1..Cardinality(S) : i # j => q[i] # q[j]}

\* tunnelRepository.GetAutoStartTunnels: the rows with auto_start = true
GetAutoStartTunnels == Ascending({id \in TunnelIds : Exists(id) /\ id \in autoStart})

\* StartAutoTunnels lines 616-619: read the rows to start
CallStartAuto(p) ==
  /\ proc[p].pc = "idle"
  /\ SetProc(p, [IdleProc EXCEPT !.pc = "batch_next", !.op = "auto",
                                 !.todo = GetAutoStartTunnels])
  /\ UNCHANGED <<tunnels, nextId, logs, hosts, activeTunnels, runs, conns, ext>>

\* StartAutoTunnels lines 621-627: StartTunnel of the next row, or return nil
AutoNext(p) ==
  /\ proc[p].pc = "batch_next"
  /\ proc[p].op = "auto"
  /\ IF proc[p].todo = <<>> THEN SetProc(p, BatchDone(proc[p], "ok"))
     ELSE StartEntry(p, [proc[p] EXCEPT !.id = Head(proc[p].todo),
                                        !.todo = Tail(proc[p].todo)])
  /\ UNCHANGED <<tunnels, nextId, logs, hosts, activeTunnels, runs, conns, ext>>

\* StopAllTunnels lines 632-637: under the read lock, the ids of the registry
CallStopAll(p) ==
  /\ proc[p].pc = "idle"
  /\ \E q \in Orders({id \in TunnelIds : activeTunnels[id] # NoHandle}) :
       SetProc(p, [IdleProc EXCEPT !.pc = "batch_next", !.op = "stopall", !.todo = q])
  /\ UNCHANGED <<tunnels, nextId, logs, hosts, activeTunnels, runs, conns, ext>>

\* StopAllTunnels lines 639-645: StopTunnel of the next id, or return nil
StopAllNext(p) ==
  /\ proc[p].pc = "batch_next"
  /\ proc[p].op = "stopall"
  /\ IF proc[p].todo = <<>>
     THEN SetProc(p, BatchDone(proc[p], "ok")) /\ UNCHANGED activeTunnels
     ELSE StopTake(p, [proc[p] EXCEPT !.id = Head(proc[p].todo),
                                      !.todo = Tail(proc[p].todo)])
  /\ UNCHANGED <<tunnels, nextId, logs, hosts, runs, conns, ext>>

\* ------------------------------------------------------------- accept loops
\* the deferred listener.Close() of the loop's goroutine (lines 276-279, 377-380, 462-465)
LoopExit(rn, r) == Forget([rn EXCEPT ![r].lst = "closed", ![r].loop = "done"])

\* lines 282-286, 383-387, 468-472: select on ctx.Done() at the top of an iteration
LoopSelect(r) ==
  /\ runs[r].loop = "select"
  /\ runs' = IF runs[r].cancelled THEN LoopExit(runs, r)
             ELSE [runs EXCEPT ![r].loop = "accept"]
  /\ UNCHANGED <<tunnels, nextId, logs, hosts, activeTunnels, conns, proc, ext>>

\* the listener can still hand out a connection
Listening(r) ==
  /\ runs[r].lst = "open"
  /\ runs[r].type = TunnelTypeRemoteForward => runs[r].ssh = "open"

\* lines 293, 313 / 389, 399 / 478, 498: Accept returns a connection, go handle...
LoopAcceptConn(r, c) ==
  /\ runs[r].loop = "accept"
  /\ Listening(r)
  /\ conns[c] = NoConn
  /\ conns' = [conns EXCEPT ![c] =
                 [run |-> r, tid |-> runs[r].tid,
                  pc |-> IF runs[r].type = TunnelTypeDynamic THEN "socks_connect" ELSE "dial"]]
  /\ runs' = [runs EXCEPT ![r].loop = "select"]
  /\ UNCHANGED <<tunnels, nextId, logs, hosts, activeTunnels, proc, ext>>

\* lines 288-299, 474-484: the 1 s accept deadline of a local listener passes
LoopAcceptTimeout(r) ==
  /\ runs[r].loop = "accept"
  /\ IsLocalBind(runs[r].type)
  /\ runs[r].lst = "open"
  /\ runs' = [runs EXCEPT ![r].loop = "select"]
  /\ UNCHANGED <<tunnels, nextId, logs, hosts, activeTunnels, conns, proc, ext>>

\* lines 300-304, 391-395, 485-489: Accept fails on a closed listener: return if the
\* context is cancelled, else log and continue
LoopAcceptError(r) ==
  /\ runs[r].loop = "accept"
  /\ ~Listening(r)
  /\ runs' = IF runs[r].cancelled THEN LoopExit(runs, r)
             ELSE [runs EXCEPT ![r].loop = "select"]
  /\ UNCHANGED <<tunnels, nextId, logs, hosts, activeTunnels, conns, proc, ext>>

\* ------------------------------------------------------------- connection handlers
ConnTunnel(c) == conns[c].tid

\* a handler that takes a failed dial for the end of the tunnel
HandlerDialFail_Fatal(c) ==
  /\ conns[c].pc = "dial"
  /\ LogRoom
  /\ logs' = AddConnectionLog(logs, conns[c].tid, LogEventError)
  /\ tunnels' = UpdateStatus(tunnels, conns[c].tid, TunnelStatusError)
  /\ conns' = [conns EXCEPT ![c] = NoConn]
  /\ UNCHANGED <<nextId, hosts, activeTunnels, runs, proc, ext>>

\* lines 327-332, 413-418: the dial of the peer fails: `error` event, return
HandlerDialFail(c) ==
  /\ conns[c].pc = "dial"
  /\ LogRoom
  /\ logs' = AddConnectionLog(logs, ConnTunnel(c), LogEventError)
  /\ conns' = [conns EXCEPT ![c] = NoConn]
  /\ UNCHANGED <<tunnels, nextId, hosts, activeTunnels, runs, proc, ext>>

\* lines 327, 335 / 413, 421: the peer is dialled (through the SSH client for
\* local_forward): `connect` event, the two copies start
HandlerDialOk(c) ==
  /\ conns[c].pc = "dial"
  /\ runs[conns[c].run].ssh = "open" \/ runs[conns[c].run].type = TunnelTypeRemoteForward
  /\ LogRoom
  /\ logs' = AddConnectionLog(logs, ConnTunnel(c), LogEventConnect)
  /\ conns' = [conns EXCEPT ![c].pc = "relay"]
  /\ UNCHANGED <<tunnels, nextId, hosts, activeTunnels, runs, proc, ext>>

\* lines 353-358, 438-443: a copy returned or the context was cancelled: `disconnect`
HandlerRelayEnd(c) ==
  /\ conns[c].pc = "relay"
  /\ LogRoom
  /\ logs' = AddConnectionLog(logs, ConnTunnel(c), LogEventDisconnect)
  /\ conns' = [conns EXCEPT ![c] = NoConn]
  /\ UNCHANGED <<tunnels, nextId, hosts, activeTunnels, runs, proc, ext>>

\* handleSOCKS5 line 510: `connect` event before the handshake
SocksConnect(c) ==
  /\ conns[c].pc = "socks_connect"
  /\ LogRoom
  /\ logs' = AddConnectionLog(logs, ConnTunnel(c), LogEventConnect)
  /\ conns' = [conns EXCEPT ![c].pc = "socks_run"]
  /\ UNCHANGED <<tunnels, nextId, hosts, activeTunnels, runs, proc, ext>>

\* HandleConnection lines 72-78: the greeting and the request of the client were read,
\* neither of which waits for anything but the client, and the destination was dialled:
\* the relay starts
SocksHandshake(c) ==
  /\ conns[c].pc = "socks_run"
  /\ conns' = [conns EXCEPT ![c].pc = "socks_relay"]
  /\ UNCHANGED <<tunnels, nextId, logs, hosts, activeTunnels, runs, proc, ext>>

\* handleSOCKS5 line 525: HandleConnection returns nil, which only relay does, when a
\* copy returned without error
SocksEnd(c) ==
  /\ conns[c].pc = "socks_relay"
  /\ conns' = [conns EXCEPT ![c].pc = "socks_disconnect"]
  /\ UNCHANGED <<tunnels, nextId, logs, hosts, activeTunnels, runs, proc, ext>>

\* handleSOCKS5 lines 525-528: HandleConnection returns an error: `error` event
SocksError(c) ==
  /\ conns[c].pc \in {"socks_run", "socks_relay"}
  /\ LogRoom
  /\ logs' = AddConnectionLog(logs, ConnTunnel(c), LogEventError)
  /\ conns' = [conns EXCEPT ![c].pc = "socks_disconnect"]
  /\ UNCHANGED <<tunnels, nextId, hosts, activeTunnels, runs, proc, ext>>

\* handleSOCKS5 line 530: `disconnect` event
SocksDisconnect(c) ==
  /\ conns[c].pc = "socks_disconnect"
  /\ LogRoom
  /\ logs' = AddConnectionLog(logs, ConnTunnel(c), LogEventDisconnect)
  /\ conns' = [conns EXCEPT ![c] = NoConn]
  /\ UNCHANGED <<tunnels, nextId, hosts, activeTunnels, runs, proc, ext>>

\* ------------------------------------------------------------- relay of a forward
\* handleLocalForward lines 322-359 and handleRemoteForward lines 408-444, with the two
\* copy goroutines as tasks of their own
FwdFrame == <<engine, booted, autoStart, logCap, busy, socks, hostRows, encryptKey, clock>>

\* the deferred Close of the accepted connection alone
CloseBoth_Accepted(f) == [f EXCEPT !.accepted = "closed"]

\* the deferred remoteConn.Close() and localConn.Close() (lines 324, 333 / 410, 419)
CloseBoth(f) == [f EXCEPT !.accepted = "closed", !.peer = "closed"]

\* lines 327-332, 413-418: the dial of the peer fails
FwdDialFail ==
  /\ fwd.pc = "dial"
  /\ fwd' = [fwd EXCEPT !.pc = "returned", !.accepted = "closed",
                        !.events = Append(@, LogEventError)]
  /\ UNCHANGED FwdFrame

\* lines 327-349, 413-435: the peer is dialled, `connect`, the two copies are spawned
FwdDialOk ==
  /\ fwd.pc = "dial"
  /\ fwd' = [fwd EXCEPT !.pc = "select", !.peer = "open", !.up = "run", !.down = "run",
                        !.events = Append(@, LogEventConnect)]
  /\ UNCHANGED FwdFrame

\* io.Copy towards the peer moves a byte
FwdSend ==
  /\ fwd.up = "run" /\ fwd.accepted = "open" /\ fwd.peer = "open"
  /\ fwd.sent < MaxRelay
  /\ fwd' = [fwd EXCEPT !.sent = @ + 1]
  /\ UNCHANGED FwdFrame

\* io.Copy towards the accepted connection moves a byte
FwdReceive ==
  /\ fwd.down = "run" /\ fwd.accepted = "open" /\ fwd.peer = "open"
  /\ fwd.received < MaxRelay
  /\ fwd' = [fwd EXCEPT !.received = @ + 1]
  /\ UNCHANGED FwdFrame

\* lines 341-343 / 427-429: io.Copy towards the peer returns (end of stream, an error, or
\* a connection closed under it) and the goroutine signals `done`
FwdUpReturns ==
  /\ fwd.up = "run"
  /\ fwd' = [fwd EXCEPT !.up = "done", !.done = @ + 1]
  /\ UNCHANGED FwdFrame

\* lines 346-349 / 432-435: the same for the copy towards the accepted connection
FwdDownReturns ==
  /\ fwd.down = "run"
  /\ fwd' = [fwd EXCEPT !.down = "done", !.done = @ + 1]
  /\ UNCHANGED FwdFrame

\* the cancel() of the tunnel's context, by StopTunnel
FwdCancel ==
  /\ fwd.ctx = "live"
  /\ fwd.pc # "returned"
  /\ fwd' = [fwd EXCEPT !.ctx = "cancelled"]
  /\ UNCHANGED FwdFrame

\* lines 352-358 / 437-443: the select takes a signal of `done` or the cancellation, then
\* `disconnect` and the deferred closes
FwdSelect ==
  /\ fwd.pc = "select"
  /\ \/ /\ fwd.done > 0
        /\ fwd' = CloseBoth([fwd EXCEPT !.pc = "returned", !.done = @ - 1,
                                        !.events = Append(@, LogEventDisconnect)])
     \/ /\ fwd.ctx = "cancelled"
        /\ fwd' = CloseBoth([fwd EXCEPT !.pc = "returned",
                                        !.events = Append(@, LogEventDisconnect)])
  /\ UNCHANGED FwdFrame

\* a copy whose connection was closed under it returns
FwdClosedCopy ==
  /\ "closed" \in {fwd.accepted, fwd.peer}
  /\ FwdUpReturns \/ FwdDownReturns

\* ------------------------------------------------------------- SOCKS5 server
\* n copies of byte b
Fill(n, b) == [i \in 1..n |-> b]

\* conn.Read(buf): the bytes of the stream that fit the buffer
ReadBuf(stream) == SubSeq(stream, 1, IF Len(stream) < BufLen THEN Len(stream) ELSE BufLen)

\* what a write of the server to the client is: the bytes, and whether they are a
\* reply of the server or bytes the relay copied from the destination
Reply(bytes) == [kind |-> "reply", bytes |-> bytes]
Relayed(bytes) == [kind |-> "data", bytes |-> bytes]

\* lines 148, 184, 193, 200: a request reply with BND.ADDR 0.0.0.0 and BND.PORT 0
RequestReply(rep) == <<Socks5Version, rep, 0, AtypIPV4, 0, 0, 0, 0, 0, 0>>

\* the method lists a client may offer
LongMethods(n, last) == Fill(n - 1, AuthMethodPassword) \o <<last>>
MethodLists ==
  {<<>>, <<AuthMethodNoAuth>>, <<AuthMethodPassword>>,
   <<AuthMethodNoAuth, AuthMethodPassword>>, <<AuthMethodPassword, AuthMethodNoAuth>>,
   LongMethods(BufLen - 2, AuthMethodNoAuth), LongMethods(BufLen - 1, AuthMethodNoAuth),
   LongMethods(BufLen - 1, AuthMethodPassword)}

\* a method-selection message: VER, NMETHODS, METHODS; cut = 1 is a message that
\* lacks its last byte
HelloInputs == [ver : {4, Socks5Version}, methods : MethodLists, cut : {0, 1}]
HelloBytes(h) ==
  LET whole == <<h.ver, Len(h.methods)>> \o h.methods
  IN SubSeq(whole, 1, Len(whole) - h.cut)

\* the addresses a client may ask for, by address type (2 is no address type)
Addresses(atyp) ==
  CASE atyp = AtypIPV4 -> {<<127, 0, 0, 1>>, <<10, 0, 0, 2>>}
    [] atyp = AtypDomain -> {<<97>>, <<97, 46, 98>>, Fill(BufLen - 7, 97),
                             Fill(BufLen - 6, 97)}
    [] atyp = AtypIPV6 -> {Fill(15, 0) \o <<1>>,
                           Fill(10, 0) \o <<255, 255, 10, 0, 0, 2>>}
    [] OTHER -> {<<1, 2, 3, 4>>}

\* a request: VER, CMD, RSV, ATYP, DST.ADDR, DST.PORT; cut = 1 lacks its last byte
RequestInputs ==
  UNION {[ver : {4, Socks5Version}, cmd : {CmdConnect, CmdBind, CmdUDPAssociate},
          atyp : {atyp}, addr : Addresses(atyp), port : {80, 443}, cut : {0, 1}] :
         atyp \in {AtypIPV4, AtypDomain, AtypIPV6, 2}}
RequestBytes(r) ==
  LET addr == IF r.atyp = AtypDomain THEN <<Len(r.addr)>> \o r.addr ELSE r.addr
      whole == <<r.ver, r.cmd, 0, r.atyp>> \o addr \o <<r.port \div 256, r.port % 256>>
  IN SubSeq(whole, 1, Len(whole) - r.cut)

\* the client connects and writes its method selection
ClientHello(h) ==
  /\ socks.cl = "start"
  /\ socks.pc = "auth"
  /\ socks' = [socks EXCEPT !.cl = "helloed", !.hello = h,
                            !.inbox = @ \o HelloBytes(h)]
  /\ UNCHANGED socksFrame

\* the client has read the method reply that accepts it, and writes its request
ClientRequest(r) ==
  /\ socks.cl = "helloed"
  /\ socks.pc # "closed"
  /\ socks.out = <<Reply(<<Socks5Version, AuthMethodNoAuth>>)>>
  /\ socks' = [socks EXCEPT !.cl = "asked", !.want = r, !.inbox = @ \o RequestBytes(r)]
  /\ UNCHANGED socksFrame

\* lines 93-109: what handleAuth makes of the bytes read: "short" and "version" are
\* the errors of lines 94 and 99, otherwise whether no-auth is among the methods
AuthMethods(buf) ==
  IF Len(buf) < 2 \/ buf[1] # Socks5Version THEN "version"
  ELSE IF Len(buf) < 2 + buf[2] THEN "short"
  ELSE IF \E i \in 1..buf[2] : buf[2 + i] = AuthMethodNoAuth THEN "noauth"
  ELSE "none"

\* HandleConnection returns: the deferred conn.Close()
Closed(sk, err) == [sk EXCEPT !.pc = "closed", !.err = err]

\* lines 85-128: handleAuth, from its Read to its return
HandleAuth ==
  /\ socks.pc = "auth"
  /\ socks.inbox # <<>>
  /\ LET buf == ReadBuf(socks.inbox)
         sk == [socks EXCEPT !.inbox = SubSeq(@, Len(buf) + 1, Len(@))]
         found == AuthMethods(buf)
     IN socks' =
          CASE found = "noauth" ->
                 [sk EXCEPT !.pc = "request",
                            !.out = Append(@, Reply(<<Socks5Version, AuthMethodNoAuth>>))]
            [] found = "none" ->
                 Closed([sk EXCEPT !.out = Append(@, Reply(<<Socks5Version,
                                                            AuthMethodNoAcceptable>>))],
                        "no acceptable authentication method")
            [] OTHER -> Closed(sk, "invalid authentication request")
  /\ UNCHANGED socksFrame

\* net.IP.String(): an IPv4 address, or an IPv4-mapped IPv6 address, prints in dotted
\* form, any other IPv6 address in IPv6 form
IPString(ip) ==
  IF Len(ip) = 4 THEN [form |-> "ipv4", b |-> ip]
  ELSE IF SubSeq(ip, 1, 12) = Fill(10, 0) \o <<255, 255>>
       THEN [form |-> "ipv4", b |-> SubSeq(ip, 13, 16)]
       ELSE [form |-> "ipv6", b |-> ip]

\* binary.BigEndian.Uint16
Uint16(hi, lo) == hi * 256 + lo

\* a handleRequest that takes every command for CONNECT
CommandSupported_Any(cmd) == TRUE

\* line 146: the only command served
CommandSupported(cmd) == cmd = CmdConnect

\* lines 139-187: what handleRequest makes of the bytes read: an error without reply, a
\* reply code that ends the connection, or the destination to dial
ParseRequest(buf) ==
  LET n == Len(buf)
      fail(e) == [err |-> e, rep |-> 255, dest |-> NoDest]
      refuse(e, rep) == [err |-> e, rep |-> rep, dest |-> NoDest]
      dial(host, port) == [err |-> "none", rep |-> 255,
                           dest |-> [host |-> host, port |-> port]]
  IN IF n < 4 \/ buf[1] # Socks5Version THEN fail("invalid request")
     ELSE IF ~CommandSupported(buf[2])
          THEN refuse("unsupported command", RepCommandNotSupported)
     ELSE CASE buf[4] = AtypIPV4 ->
                 IF n < 10 THEN fail("incomplete IPv4 address")
                 ELSE dial(IPString(SubSeq(buf, 5, 8)), Uint16(buf[9], buf[10]))
            [] buf[4] = AtypDomain ->
                 IF n < 5 THEN fail("incomplete domain length")
                 ELSE IF n < 4 + 1 + buf[5] + 2 THEN fail("incomplete domain address")
                 ELSE dial([form |-> "name", b |-> SubSeq(buf, 6, 5 + buf[5])],
                           Uint16(buf[6 + buf[5]], buf[7 + buf[5]]))
            [] buf[4] = AtypIPV6 ->
                 IF n < 22 THEN fail("incomplete IPv6 address")
                 ELSE dial(IPString(SubSeq(buf, 5, 20)), Uint16(buf[21], buf[22]))
            [] OTHER -> refuse("unsupported address type", RepAddressNotSupported)

\* lines 131-190: handleRequest, from its Read to the target it will dial
HandleRequest ==
  /\ socks.pc = "request"
  /\ socks.inbox # <<>>
  /\ LET buf == ReadBuf(socks.inbox)
         sk == [socks EXCEPT !.inbox = SubSeq(@, Len(buf) + 1, Len(@)), !.req = buf]
         parsed == ParseRequest(buf)
     IN socks' =
          IF parsed.err = "none"
          THEN [sk EXCEPT !.pc = "dial", !.target = parsed.dest]
          ELSE IF parsed.rep # 255
               THEN Closed([sk EXCEPT !.out = Append(@, Reply(RequestReply(parsed.rep)))],
                           parsed.err)
               ELSE Closed(sk, parsed.err)
  /\ UNCHANGED socksFrame

\* lines 191-196: sshClient.Dial fails: reply host unreachable, return
SocksDialFail ==
  /\ socks.pc = "dial"
  /\ socks' = Closed([socks EXCEPT !.dials = Append(@, socks.target),
                                   !.out = Append(@, Reply(RequestReply(RepHostUnreachable)))],
                     "failed to connect")
  /\ UNCHANGED socksFrame

\* lines 200-203: the success reply is written to the client
SuccessReply(out) == Append(out, Reply(RequestReply(RepSuccess)))

\* lines 191-206: sshClient.Dial succeeds: success reply, then relay spawns its two
\* copying goroutines (lines 215-226)
SocksDialOk ==
  /\ socks.pc = "dial"
  /\ socks' = [socks EXCEPT !.pc = "relay", !.dials = Append(@, socks.target),
                            !.out = SuccessReply(@), !.copyIn = "run", !.copyOut = "run"]
  /\ UNCHANGED socksFrame

\* the bytes the relay has copied to the client (each chunk is one byte)
Down(out) == Cardinality({i \in 1..Len(out) : out[i].kind = "data"})

\* line 223: io.Copy(conn1, conn2) forwards bytes of the destination to the client
RelayDown ==
  /\ socks.pc = "relay"
  /\ socks.copyIn = "run"
  /\ Down(socks.out) < MaxRelay
  /\ \E b \in {0, Socks5Version} : socks' = [socks EXCEPT !.out = Append(@, Relayed(<<b>>))]
  /\ UNCHANGED socksFrame

\* line 216: io.Copy(conn2, conn1) forwards bytes of the client to the destination
RelayUp ==
  /\ socks.pc = "relay"
  /\ socks.copyOut = "run"
  /\ socks.up < MaxRelay
  /\ socks' = [socks EXCEPT !.up = @ + 1]
  /\ UNCHANGED socksFrame

\* lines 223-225: the copy to the client returns: bytesIn = n, done <- err
CopyInDone ==
  /\ socks.pc = "relay"
  /\ socks.copyIn = "run"
  /\ socks' = [socks EXCEPT !.copyIn = "done", !.bytesIn = Down(socks.out)]
  /\ UNCHANGED socksFrame

\* lines 216-218: the copy to the destination returns: bytesOut = n, done <- err
CopyOutDone ==
  /\ socks.pc = "relay"
  /\ socks.copyOut = "run"
  /\ socks' = [socks EXCEPT !.copyOut = "done", !.bytesOut = socks.up]
  /\ UNCHANGED socksFrame

\* part_005 lines 35-64: LogTraffic adds the two counts to the tunnel's totals
LogTraffic(stats, bytesIn, bytesOut) ==
  [CurrentBytesIn |-> stats.CurrentBytesIn + bytesIn,
   CurrentBytesOut |-> stats.CurrentBytesOut + bytesOut,
   calls |-> stats.calls + 1]

\* lines 230-241: the select returns on the first `done` or on the cancelled context;
\* LogTraffic is called with bytesIn and bytesOut as they are then; relay returns and
\* both connections are closed
RelayEnd ==
  /\ socks.pc = "relay"
  /\ \E err \in {"nil", "copy error", "context canceled"} :
       /\ err # "context canceled" => "done" \in {socks.copyIn, socks.copyOut}
       /\ socks' = Closed([socks EXCEPT !.stats = LogTraffic(@, socks.bytesIn,
                                                             socks.bytesOut)], err)
  /\ UNCHANGED socksFrame

\* ------------------------------------------------------------- secrets
\* strings and byte slices are sequences of bytes; the URL-safe base64 alphabet is the
\* bytes 0 and 1, every other byte is a character base64 does not know
Xor(a, b) == (((a % 2) + (b % 2)) % 2) + 2 * (((a \div 2) + (b \div 2)) % 2)

\* base64.URLEncoding.EncodeToString: two characters of the alphabet for each byte
RECURSIVE EncodeToString(_)
EncodeToString(bytes) ==
  IF bytes = <<>> THEN <<>>
  ELSE <<Head(bytes) \div 2, Head(bytes) % 2>> \o EncodeToString(Tail(bytes))

\* base64.URLEncoding.DecodeString fails with "illegal base64 data"
IllegalBase64(str) == Len(str) % 2 # 0 \/ \E i \in 1..Len(str) : str[i] \notin {0, 1}

RECURSIVE DecodeString(_)
DecodeString(str) ==
  IF str = <<>> THEN <<>>
  ELSE <<2 * str[1] + str[2]>> \o DecodeString(Tail(Tail(str)))

\* the block cipher of aes.NewCipher(key) on one block: a keyed permutation
CipherBlock(key, block) ==
  [i \in 1..BlockSize |-> (block[i] + key[((i - 1) % KeyLen) + 1] + i) % 4]

\* XORKeyStream of a stream whose key stream for a block is the cipher of `prev`
XorBlock(key, prev, bytes) ==
  [i \in 1..Len(bytes) |-> Xor(bytes[i], CipherBlock(key, prev)[i])]

FirstBlock(bytes) == SubSeq(bytes, 1, IF Len(bytes) < BlockSize THEN Len(bytes) ELSE BlockSize)
RestBlocks(bytes) == SubSeq(bytes, Len(FirstBlock(bytes)) + 1, Len(bytes))

\* cipher.NewCFBEncrypter(block, iv).XORKeyStream: the feedback is the ciphertext written
RECURSIVE CFBEncrypt(_, _, _)
CFBEncrypt(key, prev, plain) ==
  IF plain = <<>> THEN <<>>
  ELSE LET out == XorBlock(key, prev, FirstBlock(plain))
       IN out \o (IF Len(out) < BlockSize THEN <<>>
                  ELSE CFBEncrypt(key, out, RestBlocks(plain)))

\* a decrypter that feeds back what it has deciphered
RECURSIVE CFBDecrypt_Plain(_, _, _)
CFBDecrypt_Plain(key, prev, cipher) ==
  IF cipher = <<>> THEN <<>>
  ELSE LET out == XorBlock(key, prev, FirstBlock(cipher))
       IN out \o (IF Len(out) < BlockSize THEN <<>>
                  ELSE CFBDecrypt_Plain(key, out, RestBlocks(cipher)))

\* cipher.NewCFBDecrypter(block, iv).XORKeyStream: the feedback is the ciphertext read
RECURSIVE CFBDecrypt(_, _, _)
CFBDecrypt(key, prev, cipher) ==
  IF cipher = <<>> THEN <<>>
  ELSE LET in == FirstBlock(cipher)
       IN XorBlock(key, prev, in) \o (IF Len(in) < BlockSize THEN <<>>
                                      ELSE CFBDecrypt(key, in, RestBlocks(cipher)))

\* the IVs rand.Reader gives here
IVs == {[i \in 1..BlockSize |-> 0], [i \in 1..BlockSize |-> IF i = 1 THEN 3 ELSE 1]}

\* lines 348-367: encrypt with the IV read from rand.Reader
encrypt(key, iv, plaintext) == EncodeToString(iv \o CFBEncrypt(key, iv, plaintext))

\* lines 370-391: decrypt, or the error it returns
decrypt(key, ciphertext) ==
  IF IllegalBase64(ciphertext) THEN [err |-> "illegal base64 data", text |-> <<>>]
  ELSE LET bytes == DecodeString(ciphertext) IN
       IF Len(bytes) < BlockSize THEN [err |-> "ciphertext too short", text |-> <<>>]
       ELSE [err |-> "none",
             text |-> CFBDecrypt(key, SubSeq(bytes, 1, BlockSize),
                                 SubSeq(bytes, BlockSize + 1, Len(bytes)))]

\* ------------------------------------------------------------- host service
HostExists(id) == id \in HostIds /\ hostRows[id] \notin {NoHost, DeletedHost}
HostsNamed(name) == {id \in HostIds : HostExists(id) /\ hostRows[id].Name = name}
FreeHostIds == {id \in HostIds : hostRows[id] = NoHost}
Min(S) == CHOOSE x \in S : \A y \in S : x <= y

\* lines 199-221 (no host here has a key path)
validateAuthConfig(host) ==
  CASE host.AuthType = "password" ->
         IF host.Password = <<>> THEN "password is required" ELSE "nil"
    [] host.AuthType = "key" ->
         IF host.PrivateKey = <<>> THEN "private key or key path is required" ELSE "nil"
    [] host.AuthType = "key_password" ->
         IF host.PrivateKey = <<>> THEN "private key or key path is required"
         ELSE IF host.Passphrase = <<>> THEN "passphrase is required" ELSE "nil"
    [] OTHER -> "invalid authentication type"

EncryptField(key, iv, value) == IF value = <<>> THEN <<>> ELSE encrypt(key, iv, value)

\* lines 269-295; ivs are the three reads of rand.Reader
EncryptSensitiveData(key, host, ivs) ==
  [host EXCEPT !.Password = EncryptField(key, ivs[1], @),
               !.PrivateKey = EncryptField(key, ivs[2], @),
               !.Passphrase = EncryptField(key, ivs[3], @)]

\* one field of DecryptSensitiveData: the field afterwards, and whether the function returns
\* an error here
DecryptField(key, value) ==
  IF value = <<>> THEN [err |-> "nil", text |-> value]
  ELSE LET d == decrypt(key, value) IN
       IF d.err = "none" THEN [err |-> "nil", text |-> d.text]
       ELSE IF d.err = "illegal base64 data" THEN [err |-> "nil", text |-> value]
       ELSE [err |-> d.err, text |-> value]

\* lines 298-345: the fields are replaced in place, one after the other, up to the first error
DecryptSensitiveData(key, host) ==
  LET pw == DecryptField(key, host.Password)
      h1 == [host EXCEPT !.Password = pw.text]
      pk == DecryptField(key, host.PrivateKey)
      h2 == [h1 EXCEPT !.PrivateKey = pk.text]
      pp == DecryptField(key, host.Passphrase)
      h3 == [h2 EXCEPT !.Passphrase = pp.text]
  IN IF pw.err # "nil" THEN [err |-> "failed to decrypt password", host |-> h1]
     ELSE IF pk.err # "nil" THEN [err |-> "failed to decrypt private key", host |-> h2]
     ELSE IF pp.err # "nil" THEN [err |-> "failed to decrypt passphrase", host |-> h3]
     ELSE [err |-> "nil", host |-> h3]

\* the secrets of a host as their owner gave them
Secrets(host) == [Password |-> host.Password, PrivateKey |-> host.PrivateKey,
                  Passphrase |-> host.Passphrase]

HostFrame == <<tunnels, nextId, logs, activeTunnels, runs, conns, booted, autoStart, logCap,
               busy, socks, encryptKey, clock, fwd>>

HostDone(p, op, id, ret, body) ==
  SetProc(p, [IdleProc EXCEPT !.pc = "done", !.op = op, !.id = id, !.ret = ret,
                              !.body = body])

\* hostService.CreateHost lines 60-81
CreateHost(p, in) ==
  /\ proc[p].pc = "idle"
  /\ \/ /\ HostsNamed(in.Name) # {}
        /\ HostDone(p, "createHost", 0, "host name already exists", <<>>)
        /\ UNCHANGED <<hostRows, hosts>>
     \/ /\ HostsNamed(in.Name) = {}
        /\ validateAuthConfig(in) # "nil"
        /\ HostDone(p, "createHost", 0, validateAuthConfig(in), <<>>)
        /\ UNCHANGED <<hostRows, hosts>>
     \/ /\ HostsNamed(in.Name) = {}
        /\ validateAuthConfig(in) = "nil"
        /\ FreeHostIds # {}
        /\ \E ivs \in [1..3 -> IVs] :
             LET id == Min(FreeHostIds)
                 row == [EncryptSensitiveData(encryptKey, in, ivs) EXCEPT
                           !.Status = "inactive", !.plain = Secrets(in)]
             IN /\ hostRows' = [hostRows EXCEPT ![id] = row]
                /\ hosts' = hosts \cup {id}
                /\ HostDone(p, "createHost", id, "ok", row)
  /\ UNCHANGED HostFrame

\* HostHandler.UpdateHost lines 108-142, hostService.UpdateHost lines 117-128 and the
\* db.Save of hostRepository.Update: every column is written, a missing row is inserted
UpdateHost(p, id, in) ==
  /\ proc[p].pc = "idle"
  /\ \/ /\ validateAuthConfig(in) # "nil"
        /\ HostDone(p, "updateHost", id, validateAuthConfig(in), <<>>)
        /\ UNCHANGED <<hostRows, hosts>>
     \/ /\ validateAuthConfig(in) = "nil"
        /\ HostsNamed(in.Name) \ {id} # {}
        /\ HostDone(p, "updateHost", id, "UNIQUE constraint failed", <<>>)
        /\ UNCHANGED <<hostRows, hosts>>
     \/ /\ validateAuthConfig(in) = "nil"
        /\ HostsNamed(in.Name) \ {id} = {}
        /\ \E ivs \in [1..3 -> IVs] :
             LET row == [EncryptSensitiveData(encryptKey, in, ivs) EXCEPT
                           !.plain = Secrets(in)]
             IN /\ hostRows' = [hostRows EXCEPT ![id] = row]
                /\ hosts' = hosts \cup {id}
                /\ HostDone(p, "updateHost", id, "ok", row)
  /\ UNCHANGED HostFrame

\* hostService.GetHost lines 84-97
GetHostDecrypted(p, id) ==
  /\ proc[p].pc = "idle"
  /\ IF ~HostExists(id) THEN HostDone(p, "getHost", id, "record not found", <<>>)
     ELSE LET d == DecryptSensitiveData(encryptKey, hostRows[id]) IN
          IF d.err # "nil"
          THEN HostDone(p, "getHost", id, "failed to decrypt sensitive data", <<>>)
          ELSE HostDone(p, "getHost", id, "ok", d.host)
  /\ UNCHANGED <<hostRows, hosts>>
  /\ UNCHANGED HostFrame

\* the slice GetAllHosts returns, in id order: a host whose decryption fails stays in it as
\* DecryptSensitiveData left it
RECURSIVE DecryptAll(_, _)
DecryptAll(key, ids) ==
  IF ids = {} THEN <<>>
  ELSE <<DecryptSensitiveData(key, hostRows[Min(ids)]).host>>
         \o DecryptAll(key, ids \ {Min(ids)})

\* StartTunnel lines 202-213 with createSSHConnection lines 725-730: the host comes from
\* GetHost, which has decrypted it, and DecryptSensitiveData is applied to it once more;
\* the body is the host createSSHConfig is given
StartSecrets(p, id) ==
  /\ proc[p].pc = "idle"
  /\ IF ~HostExists(id) THEN HostDone(p, "startSecrets", id, "failed to get host", <<>>)
     ELSE LET got == DecryptSensitiveData(encryptKey, hostRows[id]) IN
          IF got.err # "nil"
          THEN HostDone(p, "startSecrets", id, "failed to get host", <<>>)
          ELSE LET again == DecryptSensitiveData(encryptKey, got.host) IN
               IF again.err # "nil"
               THEN HostDone(p, "startSecrets", id, "failed to decrypt host data", <<>>)
               ELSE HostDone(p, "startSecrets", id, "ok", again.host)
  /\ UNCHANGED <<hostRows, hosts>>
  /\ UNCHANGED HostFrame

\* hostService.GetAllHosts lines 100-114
GetAllHosts(p) ==
  /\ proc[p].pc = "idle"
  /\ HostDone(p, "getAllHosts", 0, "ok",
              DecryptAll(encryptKey, {id \in HostIds : HostExists(id)}))
  /\ UNCHANGED <<hostRows, hosts>>
  /\ UNCHANGED HostFrame

\* hostRepository.Delete lines 69-74: the tunnels with this host_id are counted
DeleteHostCount(p, id) ==
  /\ proc[p].pc = "idle"
  /\ LET count == Cardinality({t \in TunnelIds : Exists(t) /\ tunnels[t].host = id})
     IN IF count > 0
        THEN HostDone(p, "deleteHost", id, "cannot delete host with active tunnels", <<>>)
        ELSE SetProc(p, [IdleProc EXCEPT !.pc = "host_del", !.op = "deleteHost", !.id = id])
  /\ UNCHANGED <<hostRows, hosts>>
  /\ UNCHANGED HostFrame

\* hostRepository.Delete line 77: the row is removed for good
DeleteHostRow(p) ==
  /\ proc[p].pc = "host_del"
  /\ hostRows' = [hostRows EXCEPT ![proc[p].id] = IF HostExists(proc[p].id) THEN DeletedHost
                                                   ELSE @]
  /\ hosts' = hosts \ {proc[p].id}
  /\ HostDone(p, "deleteHost", proc[p].id, "ok", <<>>)
  /\ UNCHANGED HostFrame

\* hostRepository.UpdateStatus lines 81-83: column status and no other
UpdateHostStatus(rows, id, status) ==
  IF id \in HostIds /\ rows[id] \notin {NoHost, DeletedHost}
  THEN [rows EXCEPT ![id].Status = status] ELSE rows

\* what the probe of TestConnection meets: the step that fails, or none
ProbeOutcomes == {"SSH connection failed", "failed to create SSH session",
                  "command execution failed", "empty command output", "ok"}

\* createSSHConfig lines 224-266; parsed tells whether the private key is one
createSSHConfig(host, parsed) ==
  IF host.AuthType = "password" \/ parsed THEN "nil" ELSE "failed to parse private key"

\* hostService.TestConnection lines 137-191
TestConnection(p, id, parsed, outcome) ==
  /\ proc[p].pc = "idle"
  /\ IF ~HostExists(id)
     THEN /\ HostDone(p, "testConnection", id, "record not found", <<>>)
          /\ UNCHANGED hostRows
     ELSE LET d == DecryptSensitiveData(encryptKey, hostRows[id]) IN
          IF d.err # "nil"
          THEN /\ HostDone(p, "testConnection", id, "failed to decrypt sensitive data", <<>>)
               /\ UNCHANGED hostRows
          ELSE IF createSSHConfig(d.host, parsed) # "nil"
          THEN /\ HostDone(p, "testConnection", id, "failed to create SSH config", <<>>)
               /\ UNCHANGED hostRows
          ELSE IF outcome # "ok"
          THEN /\ hostRows' = UpdateHostStatus(hostRows, id, "error")
               /\ HostDone(p, "testConnection", id, outcome, <<>>)
          ELSE /\ hostRows' = UpdateHostStatus(hostRows, id, "active")
               /\ HostDone(p, "testConnection", id, "ok",
                           [d.host EXCEPT !.Status = "active", !.LastCheck = clock])
  /\ UNCHANGED hosts
  /\ UNCHANGED HostFrame

\* time passes
Tick ==
  /\ clock < MaxClock
  /\ clock' = clock + 1
  /\ UNCHANGED <<engine, booted, autoStart, logCap, busy, socks, hostRows, encryptKey, fwd>>

\* encrypt (lines 348-367) and then decrypt (lines 370-391) with the key of the service
RoundTrip(p, plaintext) ==
  /\ proc[p].pc = "idle"
  /\ \E iv \in IVs :
       HostDone(p, "roundTrip", 0, "ok",
                [plaintext |-> plaintext, stored |-> encrypt(encryptKey, iv, plaintext),
                 back |-> decrypt(encryptKey, encrypt(encryptKey, iv, plaintext))])
  /\ UNCHANGED <<hostRows, hosts>>
  /\ UNCHANGED HostFrame

\* ------------------------------------------------------------- Clash export
\* strings are sequences of characters
DashChars == {" ", "_", ".", ":", "/", "\\", "|", "*", "?"}
DropChars == {"\"", "'", "<", ">"}

\* lines 268-284: the replacer: nine characters become "-", four are removed
RECURSIVE Replace(_)
Replace(name) ==
  IF name = <<>> THEN <<>>
  ELSE LET c == Head(name) IN
       (IF c \in DashChars THEN <<"-">> ELSE IF c \in DropChars THEN <<>> ELSE <<c>>)
         \o Replace(Tail(name))

\* strings.Contains(result, "--")
ContainsDashes(str) == \E i \in 1..(Len(str) - 1) : str[i] = "-" /\ str[i + 1] = "-"

\* strings.ReplaceAll(result, "--", "-"): the matches from the left, without overlap
RECURSIVE ReplaceAllDashes(_)
ReplaceAllDashes(str) ==
  IF Len(str) < 2 THEN str
  ELSE IF str[1] = "-" /\ str[2] = "-" THEN <<"-">> \o ReplaceAllDashes(Tail(Tail(str)))
  ELSE <<Head(str)>> \o ReplaceAllDashes(Tail(str))

\* a sanitizeName that replaces the pairs of dashes only once
Collapse_Once(str) == ReplaceAllDashes(str)

\* lines 287-289: for strings.Contains(result, "--") { ReplaceAll }
RECURSIVE Collapse(_)
Collapse(str) == IF ContainsDashes(str) THEN Collapse(ReplaceAllDashes(str)) ELSE str

\* line 292: strings.Trim(result, "-")
RECURSIVE TrimLeft(_)
TrimLeft(str) == IF str # <<>> /\ Head(str) = "-" THEN TrimLeft(Tail(str)) ELSE str
RECURSIVE TrimRight(_)
TrimRight(str) ==
  IF str # <<>> /\ str[Len(str)] = "-" THEN TrimRight(SubSeq(str, 1, Len(str) - 1)) ELSE str
Trim(str) == TrimRight(TrimLeft(str))

\* lines 266-300
sanitizeName(name) ==
  LET result == Trim(Collapse(Replace(name)))
  IN IF result = <<>> THEN <<"p", "r", "o", "x", "y">> ELSE result

\* the names sanitizeName is given: every string of a few characters of each kind, and
\* three longer ones
NameChars == {"a", "-", " ", "_", "'", "*"}
Names ==
  UNION {[1..n -> NameChars] : n \in 0..MaxName}
    \cup {<<"H", "o", "m", "e", " ", " ", "P", "C", "_", "0", "1", "/", "d", "e", "v">>,
          <<"*", "*", "*">>, <<"-", "a", "-", "-", "b", "-">>}

\* a name is sanitized, and the result sanitized again
Sanitize(p, name) ==
  /\ proc[p].pc = "idle"
  /\ SetProc(p, [IdleProc EXCEPT !.pc = "done", !.op = "sanitize", !.ret = "ok",
                                 !.body = [name |-> name, result |-> sanitizeName(name),
                                           again |-> sanitizeName(sanitizeName(name))]])
  /\ UNCHANGED <<tunnels, nextId, logs, hosts, activeTunnels, runs, conns, ext>>

\* the names of the rows of table hosts
HostName(id) == IF id = 1 THEN <<"m", "y", " ", "_", "p", "c">> ELSE <<"*", "'">>

\* an export that takes every dynamic tunnel, whatever its status
IsActiveSocks5_AnyStatus(t) == t.type = TunnelTypeDynamic

\* line 252: a SOCKS5 tunnel that is active
IsActiveSocks5(t) == t.type = TunnelTypeDynamic /\ t.status = TunnelStatusActive

\* lines 258-260: sort.Slice by LocalPort (rows of equal port stay in the order of
\* GetAll, the order of the primary key)
RECURSIVE SortByPort(_)
SortByPort(ids) ==
  IF ids = {} THEN <<>>
  ELSE LET first == CHOOSE id \in ids : \A o \in ids \ {id} :
                      \/ tunnels[id].port < tunnels[o].port
                      \/ tunnels[id].port = tunnels[o].port /\ id < o
       IN <<first>> \o SortByPort(ids \ {first})

\* lines 242-263
GetActiveSocks5Tunnels ==
  SortByPort({id \in TunnelIds : Exists(id) /\ IsActiveSocks5(tunnels[id])})

\* lines 130-138: the proxy of a tunnel; `tunnel` is the row its server (the row's
\* local address) and port are copied from
ClashProxy(id) ==
  [name |-> <<"drilling", sanitizeName(HostName(tunnels[id].host)), tunnels[id].port>>,
   type |-> "socks5", tunnel |-> id, port |-> tunnels[id].port]

\* lines 122-142: one proxy per tunnel, a tunnel whose host is not found is skipped
RECURSIVE Proxies(_)
Proxies(ids) ==
  IF ids = <<>> THEN <<>>
  ELSE (IF tunnels[Head(ids)].host \in hosts THEN <<ClashProxy(Head(ids))>> ELSE <<>>)
         \o Proxies(Tail(ids))

\* lines 121, 141: the names of the proxies, in their order
ProxyNames(proxies) == [i \in 1..Len(proxies) |-> proxies[i].name]

\* the names Clash knows by itself and the names of the groups: one-element sequences,
\* which no proxy name is
Direct == <<"DIRECT">>
GroupAuto == <<"Auto">>
GroupProxy == <<"Proxy">>
GroupLoadBalance == <<"LoadBalance">>

\* lines 145-177: no group without a proxy; Auto and Proxy; LoadBalance with two proxies
\* or more, and then also a member of Proxy
ProxyGroups(proxyNames) ==
  IF proxyNames = <<>> THEN <<>>
  ELSE IF Len(proxyNames) > 1
       THEN <<[name |-> GroupAuto, type |-> "url-test", proxies |-> proxyNames],
              [name |-> GroupProxy, type |-> "select",
               proxies |-> <<GroupAuto, GroupLoadBalance, Direct>> \o proxyNames],
              [name |-> GroupLoadBalance, type |-> "load-balance", proxies |-> proxyNames]>>
       ELSE <<[name |-> GroupAuto, type |-> "url-test", proxies |-> proxyNames],
              [name |-> GroupProxy, type |-> "select",
               proxies |-> <<GroupAuto, Direct>> \o proxyNames]>>

\* lines 180-196: the rules, each with the target it names
ClashRules ==
  <<[rule |-> "DOMAIN-SUFFIX,local", target |-> Direct],
    [rule |-> "DOMAIN-SUFFIX,localhost", target |-> Direct],
    [rule |-> "DOMAIN-SUFFIX,lan", target |-> Direct],
    [rule |-> "IP-CIDR,127.0.0.0/8", target |-> Direct],
    [rule |-> "IP-CIDR,169.254.0.0/16", target |-> Direct],
    [rule |-> "IP-CIDR,192.168.0.0/16", target |-> Direct],
    [rule |-> "IP-CIDR,10.0.0.0/8", target |-> Direct],
    [rule |-> "IP-CIDR,172.16.0.0/12", target |-> Direct],
    [rule |-> "IP-CIDR,224.0.0.0/4", target |-> Direct],
    [rule |-> "IP-CIDR,240.0.0.0/4", target |-> Direct],
    [rule |-> "GEOIP,CN", target |-> Direct],
    [rule |-> "MATCH", target |-> GroupProxy]>>

\* lines 80-89, 120-142 and export_handler.go lines 34-54: the response of the export
ClashResponse ==
  IF GetActiveSocks5Tunnels = <<>>
  THEN [code |-> 404, error |-> "No active SOCKS5 tunnels found", proxies |-> <<>>,
        groups |-> <<>>, rules |-> <<>>]
  ELSE LET proxies == Proxies(GetActiveSocks5Tunnels) IN
       [code |-> 200, error |-> "", proxies |-> proxies,
        groups |-> ProxyGroups(ProxyNames(proxies)), rules |-> ClashRules]

ExportClashConfig(p) ==
  /\ proc[p].pc = "idle"
  /\ SetProc(p, [IdleProc EXCEPT !.pc = "done", !.op = "export", !.ret = "ok",
                                 !.body = ClashResponse])
  /\ UNCHANGED <<tunnels, nextId, logs, hosts, activeTunnels, runs, conns, ext>>

\* ------------------------------------------------------------- the system
CallerStep(p) ==
  \/ \E t \in TunnelInputs : CallCreate(p, t, MaxLive)
  \/ CreateInsert(p)
  \/ \E id \in KnownIds, t \in TunnelInputs : CallUpdate(p, id, t)
  \/ UpdateStop(p)
  \/ \E t \in TunnelInputs : UpdateSave(p, t)
  \/ \E t \in TunnelInputs : UpdateSaveRestart(p, t)
  \/ UpdateStart(p)
  \/ \E id \in KnownIds : CallDelete(p, id)
  \/ DeleteTunnelLogs(p)
  \/ DeleteTunnelRow(p)
  \/ \E id \in KnownIds : CallStart(p, id)
  \/ StartHostFail(p)
  \/ StartDialFail(p)
  \/ StartDialOk(p)
  \/ StartListenOk(p)
  \/ StartListenFail(p)
  \/ StartFailLog(p)
  \/ StartFailStatus(p)
  \/ StartRegister(p)
  \/ StartStatus(p)
  \/ StartLog(p)
  \/ \E id \in KnownIds : CallStop(p, id)
  \/ StopListener(p)
  \/ StopCancel(p)
  \/ StopSSH(p)
  \/ StopSleep(p)
  \/ StopStatus(p)
  \/ StopLog(p)
  \/ \E id \in KnownIds : CallStatus(p, id)
  \/ StatusRead(p)
  \/ Return(p)

Background ==
  \/ \E r \in RunIds : LoopSelect(r)
  \/ \E r \in RunIds, c \in ConnIds : LoopAcceptConn(r, c)
  \/ \E r \in RunIds : LoopAcceptTimeout(r)
  \/ \E r \in RunIds : LoopAcceptError(r)
  \/ \E c \in ConnIds : HandlerDialFail(c)
  \/ \E c \in ConnIds : HandlerDialOk(c)
  \/ \E c \in ConnIds : HandlerRelayEnd(c)
  \/ \E c \in ConnIds : SocksConnect(c)
  \/ \E c \in ConnIds : SocksHandshake(c)
  \/ \E c \in ConnIds : SocksEnd(c)
  \/ \E c \in ConnIds : SocksError(c)
  \/ \E c \in ConnIds : SocksDisconnect(c)

\* one caller at a time, the goroutines of the running tunnels beside it
Next == CallerStep(1) \/ Background

Spec == Init /\ [][Next]_vars

\* several callers at once on the engine: create, start and stop of one tunnel, with
\* its accept loops (no client connects)
EngineStep(p) ==
  \/ \E t \in TunnelInputs : CallCreate(p, t, MaxLive)
  \/ CreateInsert(p)
  \/ \E id \in KnownIds : CallStart(p, id)
  \/ StartHostFail(p)
  \/ StartDialFail(p)
  \/ StartDialOk(p)
  \/ StartListenOk(p)
  \/ StartListenFail(p)
  \/ StartFailLog(p)
  \/ StartFailStatus(p)
  \/ StartRegister(p)
  \/ StartStatus(p)
  \/ StartLog(p)
  \/ \E id \in KnownIds : CallStop(p, id)
  \/ StopListener(p)
  \/ StopCancel(p)
  \/ StopSSH(p)
  \/ StopSleep(p)
  \/ StopStatus(p)
  \/ StopLog(p)
  \/ Return(p)

Loops ==
  \/ \E r \in RunIds : LoopSelect(r)
  \/ \E r \in RunIds : LoopAcceptTimeout(r)
  \/ \E r \in RunIds : LoopAcceptError(r)

NextConc == (\E p \in Procs : EngineStep(p)) \/ Loops

SpecConc == Init /\ [][NextConc]_vars

\* delete beside start: two callers create, start and delete one tunnel, with its
\* accept loops (no client connects)
DeleteStep(p) ==
  \/ \E t \in TunnelInputs : CallCreate(p, t, MaxLive)
  \/ CreateInsert(p)
  \/ \E id \in KnownIds : CallStart(p, id)
  \/ StartHostFail(p)
  \/ StartDialFail(p)
  \/ StartDialOk(p)
  \/ StartListenOk(p)
  \/ StartListenFail(p)
  \/ StartFailLog(p)
  \/ StartFailStatus(p)
  \/ StartRegister(p)
  \/ StartStatus(p)
  \/ StartLog(p)
  \/ \E id \in KnownIds : CallDelete(p, id)
  \/ StopListener(p)
  \/ StopCancel(p)
  \/ StopSSH(p)
  \/ StopSleep(p)
  \/ StopStatus(p)
  \/ StopLog(p)
  \/ DeleteTunnelLogs(p)
  \/ DeleteTunnelRow(p)
  \/ Return(p)

NextDelete == (\E p \in Procs : DeleteStep(p)) \/ Loops

SpecDelete == Init /\ [][NextDelete]_vars

\* the rows a previous run of the process may have left in table tunnels
BootRows ==
  {t \in TunnelInputs : validateTunnelConfig(t) /\ t.type = TunnelTypeLocalForward}

BootTables ==
  {tbl \in [TunnelIds -> BootRows \cup {NoTunnel}] :
     \A a, b \in TunnelIds :
       (a # b /\ tbl[a] # NoTunnel /\ tbl[b] # NoTunnel) => tbl[a].port # tbl[b].port}

\* no request is served before main has set up the routes (main.go lines 61-125)
NotServing == [IdleProc EXCEPT !.pc = "boot"]

\* the process starts on a database a previous run left: nothing is running
InitBoot ==
  /\ tunnels \in BootTables
  /\ nextId = MaxTunnels + 1
  /\ logs = <<>>
  /\ hosts = {1}
  /\ activeTunnels = [i \in TunnelIds |-> NoHandle]
  /\ runs = [r \in RunIds |-> NoRun]
  /\ conns = [c \in ConnIds |-> NoConn]
  /\ proc = [p \in Procs |-> NotServing]
  /\ booted = FALSE
  /\ autoStart \in SUBSET {id \in TunnelIds : tunnels[id] # NoTunnel}
  /\ logCap = MaxLog + 1
  /\ busy = {}
  /\ socks = NoSocks
  /\ hostRows = [id \in HostIds |-> IF id \in {1} THEN SeedHost ELSE NoHost]
  /\ encryptKey = NewKey(<<>>)
  /\ clock = 1
  /\ fwd = NoFwd

\* the steps of StartTunnel after its entry
StartSteps(p) ==
  \/ StartHostFail(p)
  \/ StartDialFail(p)
  \/ StartDialOk(p)
  \/ StartListenOk(p)
  \/ StartListenFail(p)
  \/ StartFailLog(p)
  \/ StartFailStatus(p)
  \/ StartRegister(p)
  \/ StartStatus(p)
  \/ StartLog(p)

\* the steps of StopTunnel after it took the handle
StopSteps(p) ==
  \/ StopListener(p)
  \/ StopCancel(p)
  \/ StopSSH(p)
  \/ StopSleep(p)
  \/ StopStatus(p)
  \/ StopLog(p)

\* a caller of the batch operations
BatchStep(p) ==
  \/ CallStartAuto(p)
  \/ AutoNext(p)
  \/ StartSteps(p)
  \/ CallStopAll(p)
  \/ StopAllNext(p)
  \/ StopSteps(p)
  \/ Return(p)

\* a caller that only stops single tunnels
StopStep(p) ==
  \/ \E id \in KnownIds : CallStop(p, id)
  \/ StopSteps(p)
  \/ Return(p)

\* the accept loops of local_forward tunnels whose listener nothing closes but the
\* loop itself: Accept returns a connection or the deadline error
LocalLoops ==
  \/ \E r \in RunIds : LoopSelect(r)
  \/ \E r \in RunIds : LoopAcceptTimeout(r)

\* start-up, then one caller of startAuto and stopAll beside one caller of stop
NextBoot ==
  \/ StartupReset
  \/ BatchStep(1)
  \/ StopStep(2)
  \/ LocalLoops

SpecBoot == InitBoot /\ [][NextBoot]_vars

\* one caller of createDynamicTunnel, on a machine where other programs hold ports
InitDynamic ==
  /\ tunnels = [i \in TunnelIds |-> NoTunnel]
  /\ nextId = 1
  /\ logs = <<>>
  /\ hosts = {1}
  /\ activeTunnels = [i \in TunnelIds |-> NoHandle]
  /\ runs = [r \in RunIds |-> NoRun]
  /\ conns = [c \in ConnIds |-> NoConn]
  /\ proc = [p \in Procs |-> IdleProc]
  /\ booted = TRUE
  /\ autoStart = {}
  /\ logCap = MaxLog
  /\ busy \in BusyPorts
  /\ socks = NoSocks
  /\ hostRows = [id \in HostIds |-> IF id \in {1} THEN SeedHost ELSE NoHost]
  /\ encryptKey = NewKey(<<>>)
  /\ clock = 1
  /\ fwd = NoFwd

DynamicStep(p) ==
  \/ \E hostID \in 0..MaxHost : CallCreateDynamic(p, hostID)
  \/ DynamicCreate(p)
  \/ CreateInsert(p)
  \/ Return(p)

NextDynamic == DynamicStep(1)

SpecDynamic == InitDynamic /\ [][NextDynamic]_vars

\* one caller who creates, starts, stops, updates tunnels that are not running, and
\* exports
ClashInputs ==
  {t \in TunnelInputs : /\ t.type \in {TunnelTypeDynamic, TunnelTypeLocalForward}
                        /\ t.status \in {TunnelStatusActive, TunnelStatusInactive}
                        /\ validateTunnelConfig(t)}

ClashStep(p) ==
  \/ \E t \in ClashInputs : CallCreate(p, t, MaxTunnels)
  \/ CreateInsert(p)
  \/ \E id \in KnownIds, t \in ClashInputs : CallUpdate(p, id, t)
  \/ \E t \in ClashInputs : UpdateSave(p, t)
  \/ \E id \in KnownIds : CallStart(p, id)
  \/ StartSteps(p)
  \/ \E id \in KnownIds : CallStop(p, id)
  \/ StopSteps(p)
  \/ ExportClashConfig(p)
  \/ Return(p)

NextClash == ClashStep(1)

SpecClash == Init /\ [][NextClash]_vars

\* sanitizeName on its own
NextSanitize ==
  \/ \E name \in Names : Sanitize(1, name)
  \/ Return(1)

SpecSanitize == Init /\ [][NextSanitize]_vars

\* ------------------------------------------------------------- one forwarded connection
InitRelay ==
  /\ tunnels = [i \in TunnelIds |-> NoTunnel]
  /\ nextId = 1
  /\ logs = <<>>
  /\ hosts = {1}
  /\ activeTunnels = [i \in TunnelIds |-> NoHandle]
  /\ runs = [r \in RunIds |-> NoRun]
  /\ conns = [c \in ConnIds |-> NoConn]
  /\ proc = [p \in Procs |-> IdleProc]
  /\ booted = TRUE
  /\ autoStart = {}
  /\ logCap = MaxLog
  /\ busy = {}
  /\ socks = NoSocks
  /\ hostRows = [id \in HostIds |-> IF id \in {1} THEN SeedHost ELSE NoHost]
  /\ encryptKey = NewKey(<<>>)
  /\ clock = 1
  /\ fwd \in {[NoFwd EXCEPT !.kind = k] : k \in {TunnelTypeLocalForward, TunnelTypeRemoteForward}}

NextRelay ==
  \/ FwdDialFail
  \/ FwdDialOk
  \/ FwdSend
  \/ FwdReceive
  \/ FwdUpReturns
  \/ FwdDownReturns
  \/ FwdCancel
  \/ FwdSelect

\* the scheduler runs a handler whose select is ready, and a copy on a closed connection
\* returns
SpecRelay ==
  InitRelay /\ [][NextRelay]_vars /\ WF_vars(FwdSelect) /\ WF_vars(FwdClosedCopy)

\* ------------------------------------------------------------- the secret store
\* the key strings of the configuration: shorter than, as long as and longer than the key
KeyStrings == {[i \in 1..n |-> 3] : n \in 0..(KeyLen + 1)}
\* every plaintext of up to MaxPlain bytes
Plaintexts == UNION {[1..n -> Byte] : n \in 1..MaxPlain}
\* the secrets a caller gives a host: none, one byte, more than a block
SecretInputs == {<<>>, <<2>>, [i \in 1..(BlockSize + 1) |-> i % 4]}
\* what a row written without encryption holds: not base64, base64 of less than an IV,
\* base64 of an IV
LegacyValues == {<<>>, <<2>>, <<0, 1>>, [i \in 1..(2 * BlockSize) |-> i % 2]}
AuthTypes == {"password", "key", "key_password"}

SecretHosts ==
  {[NoHost EXCEPT !.Name = "a", !.AuthType = a, !.Password = pw, !.PrivateKey = pk,
                  !.Passphrase = pp, !.Status = "inactive"] :
     a \in AuthTypes, pw \in SecretInputs, pk \in SecretInputs, pp \in SecretInputs}

LegacyHosts ==
  {[NoHost EXCEPT !.Name = "a", !.AuthType = "key_password", !.Password = pw,
                  !.PrivateKey = pk, !.Passphrase = pp, !.Status = "inactive"] :
     pw \in LegacyValues, pk \in LegacyValues, pp \in LegacyValues}

InitSecrets ==
  /\ tunnels = [i \in TunnelIds |-> NoTunnel]
  /\ nextId = 1
  /\ logs = <<>>
  /\ activeTunnels = [i \in TunnelIds |-> NoHandle]
  /\ runs = [r \in RunIds |-> NoRun]
  /\ conns = [c \in ConnIds |-> NoConn]
  /\ proc = [p \in Procs |-> IdleProc]
  /\ booted = TRUE
  /\ autoStart = {}
  /\ logCap = MaxLog
  /\ busy = {}
  /\ socks = NoSocks
  /\ clock = 1
  /\ fwd = NoFwd
  /\ encryptKey \in {NewKey(str) : str \in KeyStrings}
  /\ \E row \in LegacyHosts \cup {NoHost} :
       /\ hostRows = [id \in HostIds |-> IF id = 1 THEN row ELSE NoHost]
       /\ hosts = {id \in HostIds : id = 1 /\ row # NoHost}

NextSecrets ==
  \/ \E plaintext \in Plaintexts : RoundTrip(1, plaintext)
  \/ \E in \in SecretHosts : CreateHost(1, in)
  \/ \E in \in SecretHosts : UpdateHost(1, 1, in)
  \/ GetHostDecrypted(1, 1)
  \/ GetAllHosts(1)
  \/ Return(1)

SpecSecrets == InitSecrets /\ [][NextSecrets]_vars

\* the secrets of a host that is started: none, not base64, base64 of less than an IV,
\* base64 of an IV
StartValues == {<<>>, <<2>>, <<0, 1>>, [i \in 1..(2 * BlockSize) |-> i % 2]}

StartHosts ==
  {[NoHost EXCEPT !.Name = "a", !.AuthType = a, !.Password = pw, !.PrivateKey = pk,
                  !.Passphrase = pp, !.Status = "inactive"] :
     a \in AuthTypes, pw \in StartValues, pk \in StartValues, pp \in StartValues}

\* a host is created and a tunnel on it started
NextStartSecrets ==
  \/ \E in \in StartHosts : CreateHost(1, in)
  \/ StartSecrets(1, 1)
  \/ Return(1)

SpecStartSecrets == InitSecrets /\ [][NextStartSecrets]_vars

\* ------------------------------------------------------------- hosts and their tunnels
\* hosts with a password, with a private key, and with neither
DbHosts ==
  {[NoHost EXCEPT !.Name = n, !.AuthType = a[1], !.Password = a[2], !.PrivateKey = a[3],
                  !.Status = "inactive"] :
     n \in {"a", "b"},
     a \in {<<"password", <<2>>, <<>> >>, <<"key", <<>>, <<2>> >>, <<"password", <<>>, <<>> >>}}

DbTunnels ==
  {t \in TunnelInputs : /\ t.type = TunnelTypeLocalForward
                        /\ t.status = TunnelStatusInactive
                        /\ t.port = 1 /\ t.rport = 1
                        /\ validateTunnelConfig(t)}

InitHostDb ==
  /\ tunnels = [i \in TunnelIds |-> NoTunnel]
  /\ nextId = 1
  /\ logs = <<>>
  /\ hosts = {}
  /\ activeTunnels = [i \in TunnelIds |-> NoHandle]
  /\ runs = [r \in RunIds |-> NoRun]
  /\ conns = [c \in ConnIds |-> NoConn]
  /\ proc = [p \in Procs |-> IdleProc]
  /\ booted = TRUE
  /\ autoStart = {}
  /\ logCap = MaxLog
  /\ busy = {}
  /\ socks = NoSocks
  /\ hostRows = [id \in HostIds |-> NoHost]
  /\ encryptKey = NewKey(<<>>)
  /\ clock = 1
  /\ fwd = NoFwd

NextHostDb ==
  \/ \E in \in DbHosts : CreateHost(1, in)
  \/ \E id \in HostIds : DeleteHostCount(1, id)
  \/ DeleteHostRow(1)
  \/ \E id \in HostIds, parsed \in BOOLEAN, outcome \in ProbeOutcomes :
       TestConnection(1, id, parsed, outcome)
  \/ \E id \in HostIds : GetHostDecrypted(1, id)
  \/ Tick
  \/ \E t \in DbTunnels : CallCreate(1, t, MaxTunnels)
  \/ CreateInsert(1)
  \/ \E id \in KnownIds : CallDelete(1, id)
  \/ DeleteTunnelLogs(1)
  \/ DeleteTunnelRow(1)
  \/ Return(1)

SpecHostDb == InitHostDb /\ [][NextHostDb]_vars

\* one connection of a client to the SOCKS5 server of a dynamic tunnel
NextSocks ==
  \/ \E h \in HelloInputs : ClientHello(h)
  \/ \E r \in RequestInputs : ClientRequest(r)
  \/ HandleAuth
  \/ HandleRequest
  \/ SocksDialFail
  \/ SocksDialOk
  \/ RelayDown
  \/ RelayUp
  \/ CopyInDone
  \/ CopyOutDone
  \/ RelayEnd

SpecSocks == Init /\ [][NextSocks]_vars

\* one caller of createMultipleLocalForwards
MultiStep(p) ==
  \/ \E hostID \in 0..MaxHost, list \in ServiceLists : CallCreateMultiple(p, hostID, list)
  \/ MultiNext(p)
  \/ CreateInsert(p)
  \/ Return(p)

NextMulti == MultiStep(1)

SpecMulti == Init /\ [][NextMulti]_vars

\* several callers at once on the records: create, update and delete of tunnels that
\* are never started
RecordInputs == {t \in TunnelInputs : t.status = TunnelStatusInactive /\ t.host # MaxHost}

\* what create is sent there: any status
RecordCreateInputs == {t \in TunnelInputs : t.host # MaxHost}

RecordStep(p) ==
  \/ \E t \in RecordCreateInputs : CallCreate(p, t, MaxTunnels)
  \/ CreateInsert(p)
  \/ \E id \in KnownIds, t \in RecordInputs : CallUpdate(p, id, t)
  \/ \E t \in RecordInputs : UpdateSave(p, t)
  \/ \E id \in KnownIds : CallDelete(p, id)
  \/ DeleteTunnelLogs(p)
  \/ DeleteTunnelRow(p)
  \/ Return(p)

NextRecords == \E p \in Procs : RecordStep(p)

SpecRecords == Init /\ [][NextRecords]_vars

\* ------------------------------------------------------------- properties
\* a caller whose call has just returned `ret` from operation `op`
Returned(p, op, ret) == proc[p].pc = "done" /\ proc[p].op = op /\ proc[p].ret = ret

\* the connection log holds a row of the tunnel with this event
Logged(id, event) == \E i \in 1..Len(logs) : logs[i] = <<id, event>>

\* the ways StartTunnel fails on an existing tunnel that is not running
StartFailures == {"host", "ssh", "listen", "unsupported"}

\* C1: for every tunnel, the status the engine reports is active exactly when the
\* registry holds a handle for it; with no handle, the persisted status is not active.
C1_ActiveIffHandle ==
  \A id \in TunnelIds :
    Exists(id) => (GetTunnelStatus(id) = TunnelStatusActive <=> activeTunnels[id] # NoHandle)

\* C2: once stop(id) has returned success for a local_forward or dynamic tunnel, the
\* listener of the stopped run no longer holds the tunnel's local pair.
C2_StopReleasesBind ==
  \A p \in Procs :
    Returned(p, "stop", "ok") =>
      ~(IsLocalBind(runs[proc[p].run].type) /\ runs[proc[p].run].lst = "open")

\* C3: no two persisted tunnels share a {local-address, local-port} pair, whatever
\* sequence of creates, updates and deletes (concurrent ones included) has run.
C3_LocalPairUnique ==
  \A a, b \in TunnelIds :
    (a # b /\ Exists(a) /\ Exists(b)) => tunnels[a].port # tunnels[b].port

\* C4: when start(id) of an existing tunnel has failed for a reason other than
\* already-running, no handle is registered, the SSH client this start dialled is
\* closed, the persisted status is error and an `error` log row exists.
C4_StartFailureCleansUp ==
  \A p \in Procs :
    (proc[p].pc = "done" /\ proc[p].op = "start" /\ proc[p].ret \in StartFailures) =>
      /\ activeTunnels[proc[p].id] = NoHandle
      /\ proc[p].run # 0 => runs[proc[p].run].ssh = "closed"
      /\ tunnels[proc[p].id].status = TunnelStatusError
      /\ Logged(proc[p].id, LogEventError)

\* a start (called directly, or as the restart of an update) has returned success
StartSucceeded(p) ==
  /\ proc[p].pc = "done"
  /\ proc[p].op \in {"start", "update"}
  /\ proc[p].ret = "ok"
  /\ proc[p].run # 0

\* C5: when start(id) has returned success, the registry holds the handle of the SSH
\* client this start dialled, the client is open, the persisted status is active and
\* a `start` log row exists; and a registered handle always comes from a start whose
\* dial and listen succeeded for that tunnel.
C5_StartSuccess ==
  /\ \A p \in Procs :
       StartSucceeded(p) =>
         /\ activeTunnels[proc[p].id].run = proc[p].run
         /\ runs[proc[p].run].ssh = "open"
         /\ tunnels[proc[p].id].status = TunnelStatusActive
         /\ Logged(proc[p].id, LogEventStart)
  /\ \A id \in TunnelIds :
       activeTunnels[id] # NoHandle =>
         /\ runs[activeTunnels[id].run].tid = id
         /\ runs[activeTunnels[id].run].ssh = "open"
         /\ runs[activeTunnels[id].run].lst = "open"

C5_Witness == \E p \in Procs : StartSucceeded(p) /\ proc[p].op = "start"

\* the tunnel is running and its persisted status is error, outside the window in
\* which the start that registered the handle has not yet written active
RunningButError(id) ==
  /\ activeTunnels[id] # NoHandle
  /\ tunnels[id].status = TunnelStatusError
  /\ ~\E p \in Procs : proc[p].id = id /\ proc[p].pc = "start_status"

\* the open SSH clients dialled for the tunnel
OpenClients(id) == {r \in RunIds : runs[r].tid = id /\ runs[r].ssh = "open"}

\* C6: also under concurrent callers, a tunnel never has more than one open SSH
\* client, and the persisted status of a running tunnel is never error (a losing
\* start has not overwritten it).
C6_SingleStart ==
  \A id \in TunnelIds : Cardinality(OpenClients(id)) <= 1 /\ ~RunningButError(id)

\* C7: a stop(id) that finds no handle returns NotRunning in that step and leaves
\* the registry, the tunnel rows (an error status included), the log, the runs and
\* the connections as they were; and after a stop that returned success no handle
\* is registered, so that the next stop returns NotRunning.
C7_StopNotRunning ==
  /\ [](\A p \in Procs : Returned(p, "stop", "ok") => activeTunnels[proc[p].id] = NoHandle)
  /\ [][\A p \in Procs :
          (proc[p].pc = "idle" /\ proc'[p].op = "stop"
             /\ activeTunnels[proc'[p].id] = NoHandle) =>
            /\ proc'[p].pc = "done"
            /\ proc'[p].ret = "not_running"
            /\ UNCHANGED <<tunnels, logs, activeTunnels, runs, conns>>]_vars

C7_Witness ==
  \E p \in Procs :
    /\ Returned(p, "stop", "not_running")
    /\ Exists(proc[p].id)
    /\ tunnels[proc[p].id].status = TunnelStatusError
    /\ Logged(proc[p].id, LogEventStop)

\* C8: when stop fires the cancellation, it has itself closed the run's listener:
\* past the cancel step of a stop the listener of the stopped run is not open.
C8_ListenerClosedBeforeCancel ==
  \A p \in Procs :
    proc[p].pc = "stop_ssh" => runs[proc[p].h.run].lst # "open"

\* C9: when the restart of an update fails, for whatever reason, no handle is
\* registered and the persisted status is error.
C9_UpdateFailClosed ==
  \A p \in Procs :
    (proc[p].pc = "done" /\ proc[p].op = "update" /\ proc[p].ret \in StartFailures) =>
      /\ activeTunnels[proc[p].id] = NoHandle
      /\ tunnels[proc[p].id].status = TunnelStatusError

\* C10: once delete(id) has removed the tunnel, no handle is registered for id and
\* the log holds no row of id, then and at any later time.
C10_DeleteLeavesNothing ==
  \A id \in KnownIds :
    ~Exists(id) =>
      /\ activeTunnels[id] = NoHandle
      /\ \A i \in 1..Len(logs) : logs[i][1] # id

\* C11: the start-up reset leaves no tunnel with status active: a row that was active
\* is the same row with status inactive, every other row is unchanged, and the
\* registry holds no handle.
C11_StartupReset ==
  [][(~booted /\ booted') =>
       \A id \in TunnelIds :
         /\ tunnels'[id].status # TunnelStatusActive
         /\ tunnels[id].status = TunnelStatusActive =>
              tunnels'[id] = [tunnels[id] EXCEPT !.status = TunnelStatusInactive]
         /\ tunnels[id].status # TunnelStatusActive => tunnels'[id] = tunnels[id]
         /\ activeTunnels'[id] = NoHandle]_vars

C11_Witness ==
  /\ booted
  /\ \A p \in Procs : proc[p] = IdleProc
  /\ \A r \in RunIds : runs[r] = NoRun
  /\ \E a, b \in TunnelIds :
       tunnels[a].status = TunnelStatusInactive /\ tunnels[b].status = TunnelStatusError

\* the ids a batch operation has attempted, in order
AttemptIds(att) == [i \in 1..Len(att) |-> att[i][1]]

\* C14: when startAutoTunnels returns it returns success, it has attempted start once
\* on every tunnel with auto-start=true and on no other, whatever the attempts
\* returned; where startAutoTunnels is the only starter, every SSH client belongs to
\* a tunnel with auto-start=true.
C14_StartAuto ==
  /\ \A p \in Procs :
       (proc[p].pc = "done" /\ proc[p].op = "auto") =>
         /\ proc[p].ret = "ok"
         /\ proc[p].todo = <<>>
         /\ AttemptIds(proc[p].att) = GetAutoStartTunnels
  /\ \A r \in RunIds : runs[r].tid # 0 => runs[r].tid \in autoStart

C14_Witness ==
  \E p \in Procs :
    /\ Returned(p, "auto", "ok")
    /\ Len(proc[p].att) = 2
    /\ proc[p].att[1][2] \in StartFailures
    /\ proc[p].att[2][2] = "ok"

\* the ids a stopAll has stopped, is stopping and has still to stop
StopAllIds(pr) ==
  AttemptIds(pr.att) \o (IF pr.pc \in {"batch_next", "done"} THEN <<>> ELSE <<pr.id>>)
    \o pr.todo

CreateFailures == {"invalid", "port_unavailable", "conflict"}

\* C12: the step in which create succeeds adds one row, the caller's tunnel with
\* status inactive, and changes no other row, no handle, no SSH client, no listener
\* and no log; it is taken only for a tunnel that passes validation and the port
\* check; the step in which create is rejected changes no table at all.
C12_Create ==
  [][\A p \in Procs :
       /\ (proc[p].pc = "create_insert" /\ proc'[p].pc = "done") =>
            /\ proc'[p].ret = "ok"
            /\ ~Exists(proc'[p].id)
            /\ tunnels'[proc'[p].id] = [proc[p].arg EXCEPT !.status = TunnelStatusInactive]
            /\ \A e \in TunnelIds \ {proc'[p].id} : tunnels'[e] = tunnels[e]
            /\ UNCHANGED <<activeTunnels, runs, conns, logs>>
       /\ (proc[p].pc = "idle" /\ proc'[p].pc = "create_insert") =>
            /\ validateTunnelConfig(proc'[p].arg)
            /\ ~PortConflict(0, proc'[p].arg)
            /\ UNCHANGED <<tunnels, nextId, activeTunnels, runs, conns, logs>>
       /\ (proc[p].pc = "idle" /\ proc'[p].pc = "done" /\ proc'[p].op = "create") =>
            /\ proc'[p].ret \in CreateFailures
            /\ UNCHANGED <<tunnels, nextId, activeTunnels, runs, conns, logs>>]_vars

C12_Witness ==
  \E p, q \in Procs :
    /\ Returned(p, "create", "ok")
    /\ tunnels[proc[p].id].status = TunnelStatusInactive
    /\ Returned(q, "create", "conflict")

\* C13: a step that changes the persisted status of a tunnel from error to another
\* status is the status write of a successful start of that tunnel.
C13_ErrorLeftOnlyByStart ==
  [][\A id \in TunnelIds :
       (tunnels[id].status = TunnelStatusError /\ tunnels'[id] # NoTunnel
          /\ tunnels'[id].status # TunnelStatusError) =>
         \E p \in Procs :
           proc[p].pc = "start_status" /\ proc[p].id = id /\ proc'[p].pc = "start_log"]_vars


\* the ids a createMultipleLocalForwards call has returned so far
CreatedIds(att) == {att[i][1] : i \in {j \in 1..Len(att) : att[j][2] = "ok"}}

\* C16: createMultipleLocalForwards attempts every entry: an entry that passes create
\* is persisted as a remote_forward tunnel and returned, a failing entry persists
\* nothing, adds to the one aggregated error, stops no later entry and rolls back no
\* earlier one; the returned list is exactly the set of records the call persisted
C16_CreateMultiple ==
  \A p \in Procs : proc[p].op = "multi" =>
    LET att == proc[p].att IN
    /\ \A i \in 1..Len(att) :
         IF att[i][2] = "ok"
         THEN /\ Exists(att[i][1])
              /\ tunnels[att[i][1]].type = TunnelTypeRemoteForward
              /\ tunnels[att[i][1]].status = TunnelStatusInactive
         ELSE att[i][1] = 0
    /\ proc[p].pc \in {"batch_next", "done"} =>
         /\ {id \in TunnelIds : id >= proc[p].first /\ Exists(id)} = CreatedIds(att)
         /\ nextId - proc[p].first = Cardinality(CreatedIds(att))
    /\ proc[p].pc = "done" =>
         /\ proc[p].todo = <<>>
         /\ proc[p].ret = (IF SomeFailed(att) THEN "some_failed" ELSE "ok")

\* a batch returned with an entry created after one that failed, and one that failed
\* after one that was created
C16_Witness ==
  \E p \in Procs :
    /\ proc[p].pc = "done" /\ proc[p].op = "multi" /\ proc[p].ret = "some_failed"
    /\ \E i, j, k \in 1..Len(proc[p].att) :
         /\ i < j /\ j < k
         /\ proc[p].att[i][2] = "invalid" /\ proc[p].att[j][2] = "ok"
         /\ proc[p].att[k][2] = "conflict"


\* the lowest port of a range that can be bound, 0 when none can
LowestBindable(first, last) ==
  LET free == {q \in first..last : Bindable(q)} IN
  IF free = {} THEN 0 ELSE CHOOSE q \in free : \A o \in free : q <= o

\* C17: createDynamicTunnel, called with a name and a host id, and with no other
\* program taking the port meanwhile, returns a persisted dynamic tunnel on the lowest
\* bindable port of 1080-1090, or else of 8080-8090; it fails with the error of no
\* available port when no port of either range can be bound
C17_CreateDynamic ==
  \A p \in Procs :
    (/\ proc[p].pc = "done" /\ proc[p].op = "dynamic"
     /\ proc[p].ret \notin {"invalid", "port_unavailable"}) =>
      LET low == LowestBindable(SocksPortFirst, SocksPortLast)
          port == IF low # 0 THEN low ELSE LowestBindable(AltPortFirst, AltPortLast)
      IN IF port = 0
         THEN proc[p].ret = "no_port"
         ELSE /\ proc[p].ret = "ok"
              /\ Exists(proc[p].id)
              /\ tunnels[proc[p].id].type = TunnelTypeDynamic
              /\ tunnels[proc[p].id].port = port


\* the method reply that accepts the client, and the one that turns it away
MethodAccepted == Reply(<<5, 0>>)
MethodRefused == Reply(<<5, 255>>)

\* the client's complete method selection of version 5 has been handled
HelloHandled ==
  /\ socks.pc # "auth"
  /\ socks.hello # <<>>
  /\ socks.hello.ver = 5
  /\ socks.hello.cut = 0

\* C18: for any method-selection message of version 5, if the methods offered include
\* 0x00 the server replies 05 00 and goes on to read the request; otherwise it replies
\* 05 FF, ends the connection and neither reads a request nor dials
C18_MethodSelection ==
  HelloHandled =>
    IF \E i \in 1..Len(socks.hello.methods) : socks.hello.methods[i] = 0
    THEN /\ socks.out # <<>>
         /\ socks.out[1] = MethodAccepted
         /\ socks.pc = "closed" => socks.req # <<>>
    ELSE /\ socks.out = <<MethodRefused>>
         /\ socks.pc = "closed"
         /\ socks.req = <<>>
         /\ socks.dials = <<>>

\* C19: a request of version 5 is dialled only if its command is CONNECT and its
\* address type IPv4, domain or IPv6; another command is answered with reply 0x07, an
\* unknown address type with 0x08, and both end the connection without a dial
C19_RequestRefusals ==
  (socks.req # <<>> /\ socks.want.ver = 5) =>
    LET refused(rep) ==
          /\ socks.out = <<MethodAccepted, Reply(<<5, rep, 0, 1, 0, 0, 0, 0, 0, 0>>)>>
          /\ socks.pc = "closed"
          /\ socks.dials = <<>>
          /\ socks.target = NoDest
    IN /\ socks.want.cmd # 1 => refused(7)
       /\ (socks.want.cmd = 1 /\ socks.want.atyp \notin {1, 3, 4}) => refused(8)
       /\ (socks.pc = "dial" \/ socks.dials # <<>>) =>
            socks.want.cmd = 1 /\ socks.want.atyp \in {1, 3, 4}

\* a BIND request with an unknown address type was answered 0x07 and the connection
\* ended
C19_Witness ==
  /\ socks.pc = "closed"
  /\ socks.want # <<>>
  /\ socks.want.ver = 5 /\ socks.want.cmd = 2 /\ socks.want.atyp = 2
  /\ socks.out[2].bytes[2] = 7

\* the destination a complete request names: the name as sent, an IP address in the
\* text form net.IP prints
DestOf(r) ==
  [host |-> IF r.atyp = 3 THEN [form |-> "name", b |-> r.addr] ELSE IPString(r.addr),
   port |-> r.port]

\* the client's complete CONNECT request of version 5 has been read
ConnectRead ==
  /\ socks.req # <<>>
  /\ socks.want.ver = 5 /\ socks.want.cmd = 1 /\ socks.want.atyp \in {1, 3, 4}
  /\ socks.want.cut = 0

\* C20: for a well-formed CONNECT request the server dials exactly the destination of
\* the request; a failed dial is answered 0x04 and nothing is relayed; after a dial that
\* succeeded the client sees the method reply, then 05 00 00 01 00 00 00 00 00 00, then
\* relayed data only
C20_ConnectOrder ==
  ConnectRead =>
    /\ socks.pc = "dial" => socks.target = DestOf(socks.want) /\ socks.dials = <<>>
    /\ socks.pc # "dial" => socks.dials = <<DestOf(socks.want)>>
    /\ Len(socks.out) >= (IF socks.pc = "dial" THEN 1 ELSE 2)
    /\ socks.out[1] = MethodAccepted
    /\ socks.pc # "dial" =>
         \/ /\ socks.out = <<MethodAccepted, Reply(<<5, 4, 0, 1, 0, 0, 0, 0, 0, 0>>)>>
            /\ socks.pc = "closed"
            /\ socks.up = 0
         \/ /\ socks.out[2] = Reply(<<5, 0, 0, 1, 0, 0, 0, 0, 0, 0>>)
            /\ \A i \in 3..Len(socks.out) : socks.out[i].kind = "data"


\* the connection reached the relay and HandleConnection has returned
RelayFinished ==
  /\ socks.pc = "closed"
  /\ socks.copyIn # "none"

\* C21: for a connection that reached the relay the traffic meter is called exactly
\* once, when the relay ends, with bytes-in the bytes copied from the destination to the
\* client and bytes-out the bytes copied from the client to the destination, so the
\* tunnel's totals are the bytes relayed by its finished connections
C21_TrafficMeter ==
  /\ socks.pc # "closed" => socks.stats = NoStats
  /\ RelayFinished =>
       /\ socks.stats.calls = 1
       /\ socks.stats.CurrentBytesIn = Down(socks.out)
       /\ socks.stats.CurrentBytesOut = socks.up
  /\ (socks.pc = "closed" /\ ~RelayFinished) => socks.stats = NoStats


\* an export has answered
Exported(p) == proc[p].pc = "done" /\ proc[p].op = "export"

\* the persisted tunnels of kind dynamic and status active
ActiveDynamic ==
  {id \in TunnelIds : tunnels[id] # NoTunnel /\ tunnels[id].type = "dynamic"
                                            /\ tunnels[id].status = "active"}

\* C22: the Clash export answers 404 with error "No active SOCKS5 tunnels found"
\* exactly when no persisted tunnel is dynamic and active, and succeeds otherwise
C22_ExportGate ==
  \A p \in Procs : Exported(p) =>
    IF ActiveDynamic = {}
    THEN /\ proc[p].body.code = 404
         /\ proc[p].body.error = "No active SOCKS5 tunnels found"
    ELSE proc[p].body.code = 200

\* an export refused while a dynamic tunnel that is not active is persisted
C22_Witness ==
  \E p \in Procs :
    /\ Exported(p) /\ proc[p].body.code = 404
    /\ \E id \in TunnelIds : tunnels[id].type = "dynamic" /\ tunnels[id].status = "inactive"

\* C23: a generated Clash config holds exactly one socks5 proxy for each persisted
\* tunnel that is dynamic and active and none for another tunnel, in ascending order of
\* local port, each named drilling-{sanitize(host name)}-{port} with the tunnel's
\* address and port
C23_Proxies ==
  \A p \in Procs : (Exported(p) /\ proc[p].body.code = 200) =>
    LET px == proc[p].body.proxies IN
    /\ Len(px) = Cardinality(ActiveDynamic)
    /\ \A id \in ActiveDynamic : \E i \in 1..Len(px) : px[i].tunnel = id
    /\ \A i \in 1..Len(px) :
         /\ px[i].tunnel \in ActiveDynamic
         /\ px[i].type = "socks5"
         /\ px[i].port = tunnels[px[i].tunnel].port
         /\ px[i].name = <<"drilling", sanitizeName(HostName(tunnels[px[i].tunnel].host)),
                           px[i].port>>
    /\ \A i, j \in 1..Len(px) : i < j => px[i].port <= px[j].port


\* the characters a sanitized name may not hold
Forbidden == {" ", "_", ".", ":", "/", "\\", "|", "*", "?", "\"", "'", "<", ">"}

\* C24: sanitize(sanitize(x)) = sanitize(x); sanitize(x) is not empty, holds no
\* forbidden character, no two '-' in a row, no '-' at either end, and is "proxy" when
\* nothing else remains
C24_Sanitize ==
  \A p \in Procs : (proc[p].pc = "done" /\ proc[p].op = "sanitize") =>
    LET x == proc[p].body.name
        r == proc[p].body.result
    IN /\ proc[p].body.again = r
       /\ r # <<>>
       /\ \A i \in 1..Len(r) : r[i] \notin Forbidden
       /\ \A i \in 1..(Len(r) - 1) : ~(r[i] = "-" /\ r[i + 1] = "-")
       /\ r[1] # "-" /\ r[Len(r)] # "-"
       /\ (\A i \in 1..Len(x) : x[i] \in Forbidden \cup {"-"}) => r = <<"p", "r", "o", "x", "y">>
       /\ x = <<"H", "o", "m", "e", " ", " ", "P", "C", "_", "0", "1", "/", "d", "e", "v">>
            => r = <<"H", "o", "m", "e", "-", "P", "C", "-", "0", "1", "-", "d", "e", "v">>
       /\ x = <<"-", "a", "-", "-", "b", "-">> => r = <<"a", "-", "b">>

\* a name whose replacement left three dashes in a row between two letters
C24_Witness ==
  \E p \in Procs :
    /\ proc[p].pc = "done" /\ proc[p].op = "sanitize"
    /\ proc[p].body.name = <<"a", " ", "-", "_", "a">>
    /\ proc[p].body.result = <<"a", "-", "a">>


\* a row of table hosts as the last create or update wrote it
Written(id) == HostExists(id) /\ hostRows[id].plain # <<>>

\* C25: for every key string and every non-empty plaintext, decrypting what encrypt returned
\* gives the plaintext back; and a host that create or update stored is read back by get
\* with the password, the private key and the passphrase its caller supplied.
C25_RoundTrip ==
  \A p \in Procs :
    /\ Returned(p, "roundTrip", "ok") =>
         /\ proc[p].body.back = [err |-> "none", text |-> proc[p].body.plaintext]
         /\ proc[p].body.stored # proc[p].body.plaintext
    /\ (proc[p].pc = "done" /\ proc[p].op = "getHost" /\ Written(proc[p].id)) =>
         /\ proc[p].ret = "ok"
         /\ Secrets(proc[p].body) = hostRows[proc[p].id].plain

\* a host whose secrets are longer than a cipher block was stored encrypted under a key that
\* is not the zero key and has been read back
C25_Witness ==
  /\ Returned(1, "getHost", "ok")
  /\ Written(1)
  /\ encryptKey # NewKey(<<>>)
  /\ Len(hostRows[1].plain.PrivateKey) > BlockSize
  /\ hostRows[1].plain.Passphrase # <<>>
  /\ hostRows[1].PrivateKey # hostRows[1].plain.PrivateKey


SecretFields(host) == <<host.Password, host.PrivateKey, host.Passphrase>>
\* a stored secret whose decryption fails for another reason than its encoding
Undecryptable(value) ==
  value # <<>> /\ decrypt(encryptKey, value).err \notin {"none", "illegal base64 data"}
Unreadable(id) == \E i \in 1..3 : Undecryptable(SecretFields(hostRows[id])[i])

\* C26: on read a stored secret that is not valid URL-safe base64 is left as it is and the
\* read succeeds; every other failure to decrypt a field is returned as an error to the
\* caller of get and of getAll, which never get a record whose secrets are not or only
\* partly decrypted.
C26_DecryptOnRead ==
  \A p \in Procs :
    /\ (proc[p].pc = "done" /\ proc[p].op = "getHost" /\ HostExists(proc[p].id)) =>
         /\ proc[p].ret = "ok" <=> ~Unreadable(proc[p].id)
         /\ proc[p].ret = "ok" =>
              \A i \in 1..3 :
                IllegalBase64(SecretFields(hostRows[proc[p].id])[i]) =>
                  SecretFields(proc[p].body)[i] = SecretFields(hostRows[proc[p].id])[i]
    /\ Returned(p, "getAllHosts", "ok") =>
         \A id \in HostIds : HostExists(id) => ~Unreadable(id)


\* the tunnels of table tunnels that name host id
TunnelsOf(id) == {t \in TunnelIds : Exists(t) /\ tunnels[t].host = id}

\* C27: deleteHost(h) fails and leaves the host in place when a persisted tunnel has
\* host-id h, and removes the host only when none has; hence no persisted tunnel ever
\* references a deleted host.
C27_DeleteHost ==
  /\ \A p \in Procs :
       /\ Returned(p, "deleteHost", "cannot delete host with active tunnels") =>
            TunnelsOf(proc[p].id) # {}
       /\ Returned(p, "deleteHost", "ok") =>
            TunnelsOf(proc[p].id) = {} /\ ~HostExists(proc[p].id)
  /\ \A t \in TunnelIds : Exists(t) /\ tunnels[t].host \in HostIds =>
       hostRows[tunnels[t].host] # DeletedHost

\* C28: after a testConnection that succeeds the persisted host has status active and the
\* time of this check as last_check; after a failed probe step its status is error.
C28_TestConnection ==
  \A p \in Procs :
    /\ Returned(p, "testConnection", "ok") =>
         /\ hostRows[proc[p].id].Status = "active"
         /\ hostRows[proc[p].id].LastCheck = proc[p].body.LastCheck
    /\ (proc[p].pc = "done" /\ proc[p].op = "testConnection"
          /\ proc[p].ret \in ProbeOutcomes \ {"ok"}) =>
         hostRows[proc[p].id].Status = "error"


\* a caller is inside the teardown of StopTunnel: listener, context or SSH client to go
InTeardown(p) ==
  proc[p].op = "stop" /\ proc[p].pc \in {"stop_listener", "stop_cancel", "stop_ssh"}

\* C29: in stop(id) the handle leaves the registry only after the teardown: while the
\* listener, the context or the SSH client is still to be closed the handle is registered.
C29_TeardownFirst ==
  \A p \in Procs : InTeardown(p) => activeTunnels[proc[p].id] # NoHandle

\* a caller is inside StartTunnel after the forward was started: the handle, the status
\* or the `start` log is still to be written
StartUnfinished(p) == proc[p].pc \in {"start_register", "start_status", "start_log"}

\* C30: within one run no accept iteration begins and no connection is accepted before
\* start has registered the handle, set the status and appended the `start` log.
C30_StartFirst ==
  \A p \in Procs :
    StartUnfinished(p) =>
      /\ runs[proc[p].run].loop # "accept"
      /\ \A c \in ConnIds : conns[c] = NoConn \/ conns[c].run # proc[p].run


\* stop has fired the cancellation of run r and finished its teardown
Stopped(r) == runs[r].cancelled /\ runs[r].ssh = "closed"
\* the accept loop of run r, if it still runs, has a step of its own: the select, the
\* accept deadline of a local listener, or the failure of Accept on a dead listener
LoopEnds(r) ==
  runs[r].loop = "accept" => (IsLocalBind(runs[r].type) /\ runs[r].lst = "open") \/ ~Listening(r)
\* the handler of connection c has a step of its own: everywhere but in the reads of the
\* SOCKS5 handshake, which wait for the client with no deadline and no context
HandlerEnds(c) == conns[c].pc # "socks_run"

\* C31: once stop has fired the cancellation, every task of the run terminates: nothing
\* of a stopped run is left waiting for what the cancellation does not bring about.
C31_Termination ==
  \A r \in RunIds :
    Stopped(r) =>
      /\ LoopEnds(r)
      /\ \A c \in ConnIds : conns[c] # NoConn /\ conns[c].run = r => HandlerEnds(c)


\* the relay of the connection has ended: the handler has returned after a dial that
\* succeeded
RelayOver == fwd.pc = "returned" /\ fwd.peer # "none"
\* one direction has finished while the other still copies
HalfOpen == {fwd.up, fwd.down} = {"run", "done"}
\* the relay is due to end: a copy has returned or the cancellation has fired
RelayDue == fwd.pc = "select" /\ (fwd.done > 0 \/ fwd.ctx = "cancelled")

\* C32: the relay of a local_forward or remote_forward connection ends when a copy returns
\* or the cancellation fires; both connections are then closed and both copies terminate,
\* so a half-open relay does not persist.
C32_RelayEnds ==
  /\ [](HalfOpen /\ fwd.pc = "select" => RelayDue)
  /\ [](RelayOver => fwd.accepted = "closed" /\ fwd.peer = "closed")
  /\ (RelayDue ~> RelayOver)
  /\ (HalfOpen ~> (fwd.up = "done" /\ fwd.down = "done"))

\* a copy returned while the other direction had moved bytes and was still copying, the
\* relay ended on it without a cancellation, and the other copy has returned since
C32_Witness ==
  /\ RelayOver
  /\ fwd.ctx = "live"
  /\ fwd.up = "done" /\ fwd.down = "done"
  /\ fwd.done = 1
  /\ fwd.received > 0


\* a step of the handler of connection c
HandlerStep(c) == conns[c] # NoConn /\ conns'[c] # conns[c]
\* a step of the handler of c that ends in failure: the dial of the peer fails, or
\* HandleConnection returns an error
HandlerFails(c) ==
  /\ HandlerStep(c)
  /\ \/ conns[c].pc = "dial" /\ conns'[c] = NoConn
     \/ conns[c].pc \in {"socks_run", "socks_relay"} /\ logs' # logs

ConnectionEvents ==
  /\ fwd.pc = "dial" => fwd.events = <<>>
  /\ fwd.pc = "select" => fwd.events = <<LogEventConnect>>
  /\ fwd.pc = "returned" /\ fwd.peer = "none" => fwd.events = <<LogEventError>>
  /\ RelayOver => fwd.events = <<LogEventConnect, LogEventDisconnect>>

\* how often event e of tunnel id is in table connection_logs
RECURSIVE CountLogs(_, _, _)
CountLogs(lg, id, e) ==
  IF lg = <<>> THEN 0
  ELSE (IF Head(lg) = <<id, e>> THEN 1 ELSE 0) + CountLogs(Tail(lg), id, e)

\* C34: a forwarded connection whose dial fails appends one `error` and nothing else, any
\* other appends one `connect` followed by one `disconnect`; so a tunnel never has more
\* `disconnect` events than `connect` events.
C34_Events ==
  \A id \in TunnelIds :
    CountLogs(logs, id, LogEventDisconnect) <= CountLogs(logs, id, LogEventConnect)


\* C35: whatever the client sends, the handling reads inside its buffer and dials no
\* destination made of bytes the client did not send; and every well-formed CONNECT
\* request, with a name of any length up to 255, is parsed to its destination and dialled.
C35_Parsing ==
  /\ socks.pc = "dial" => socks.want.cut = 0 /\ socks.target = DestOf(socks.want)
  /\ \A i \in 1..Len(socks.dials) :
       socks.want.cut = 0 /\ socks.dials[i] = DestOf(socks.want)
  /\ (ConnectRead /\ socks.pc = "closed") => socks.dials # <<>>


\* the calls of every caller have returned
Quiet == \A p \in Procs : proc[p].pc \in {"idle", "done"}

\* a run of tunnel id that nothing will end: its SSH client is open, or its listener is
\* bound and its context was not cancelled
Lingers(r, id) ==
  /\ runs[r].tid = id
  /\ runs[r].ssh = "open" \/ (runs[r].lst = "open" /\ ~runs[r].cancelled)

\* C36: every handle of the registry is of an existing tunnel record, and when delete(id)
\* and the start(id) calls beside it have returned, no SSH client and no listener of the
\* deleted record is left.
C36_NoOrphan ==
  /\ \A id \in TunnelIds : activeTunnels[id] # NoHandle => Exists(id)
  /\ Quiet => \A id \in TunnelIds, r \in RunIds :
                (id < nextId /\ ~Exists(id)) => ~Lingers(r, id)


\* the StopTunnel that ended run r has returned: past its pause, status and log
StopReturned(r) ==
  /\ Stopped(r)
  /\ \A p \in Procs :
       proc[p].run = r => proc[p].pc \notin {"stop_sleep", "stop_status", "stop_log"}

\* C37: once stop(id) has returned, the accept loop of the stopped run accepts no
\* further connection and spawns no handler.
C37_NoAcceptAfterStop ==
  [][\A r \in RunIds, c \in ConnIds :
       (StopReturned(r) /\ conns[c] = NoConn) => conns'[c].run # r]_vars


\* C38: the secrets start(id) hands to the SSH configuration are the plaintext its owner
\* supplied when the host was created, whatever the secret values are: decrypting the
\* decrypted host a second time changes nothing and never fails.
C38_StartSecrets ==
  \A p \in Procs :
    (proc[p].pc = "done" /\ proc[p].op = "startSecrets" /\ Written(proc[p].id)) =>
      /\ proc[p].ret = "ok"
      /\ Secrets(proc[p].body) = hostRows[proc[p].id].plain


\* the ports createDynamicTunnel scans
ScanPorts == (SocksPortFirst..SocksPortLast) \cup (AltPortFirst..AltPortLast)
\* a port no persisted tunnel records
Unassigned(port) == \A id \in TunnelIds : Exists(id) => tunnels[id].port # port

\* C39: repeated createDynamicTunnel calls get pairwise distinct ports, and a call with a
\* name and a host succeeds while some port of 1080-1090 or 8080-8090 can be bound and is
\* recorded by no persisted tunnel, also when the tunnel of the call before is not started
\* (a port another program takes during the call is left aside).
C39_Repeated ==
  /\ \A a, b \in TunnelIds :
       (a # b /\ Exists(a) /\ Exists(b)) => tunnels[a].port # tunnels[b].port
  /\ \A p \in Procs :
       (/\ proc[p].pc = "done" /\ proc[p].op = "dynamic"
        /\ proc[p].ret \notin {"ok", "invalid", "port_unavailable"}) =>
         ~\E port \in ScanPorts : Bindable(port) /\ Unassigned(port)


\* the names a generated config defines: its proxies and its groups
Defined(body) ==
  {body.proxies[i].name : i \in 1..Len(body.proxies)}
    \cup {body.groups[i].name : i \in 1..Len(body.groups)}

\* C40: in every generated Clash config the proxy names are pairwise distinct, every
\* member of a proxy group is DIRECT, a defined group or a defined proxy, and the target
\* of every rule, the group Proxy of MATCH above all, is DIRECT or defined.
C40_Consistent ==
  \A p \in Procs : (Exported(p) /\ proc[p].body.code = 200) =>
    LET body == proc[p].body IN
    /\ \A i, j \in 1..Len(body.proxies) :
         i # j => body.proxies[i].name # body.proxies[j].name
    /\ \A g \in 1..Len(body.groups) : \A m \in 1..Len(body.groups[g].proxies) :
         body.groups[g].proxies[m] \in Defined(body) \cup {Direct}
    /\ \A r \in 1..Len(body.rules) : body.rules[r].target \in Defined(body) \cup {Direct}

====
